---- MODULE Spec2Model ----
(***************************************************************************)
(* Order orchestrators of binance_mcp_server: the bracket job              *)
(* (tools/futures/bracket_orders.py) and the TTL cancel job                *)
(* (tools/futures/cancel_on_ttl.py), each with its creator, its background *)
(* worker, its canceller and the exchange's order book as environment.     *)
(*                                                                         *)
(* One step of a thread is one lock-protected block or one exchange        *)
(* request; everything a thread computes on its own locals between two     *)
(* such points belongs to the step that precedes it.                       *)
(***************************************************************************)
EXTENDS Integers, Sequences, FiniteSets, TLC

\* ---------------------------------------------------------------- bounds
\* Entry quantity, in units of the symbol's step size.
MaxQty == 2
\* Number of take-profit specs of a bracket.
MaxTPs == 1
\* Filled quantity and number of take-profit specs of one run of
\* _place_exit_orders on its own.
MaxPlaceQty == 3
MaxPlaceTPs == 3
\* Local clock readings and clock offsets of one client request, in ms.
MaxClock == 2
MaxOffset == 2
\* Symbols the stream client is asked for, and failed connection attempts
\* in a row.
MaxSymbols == 2
MaxReconnects == 2
\* Messages the stream client takes from its connections.
MaxMessages == 2
\* Readings of time.time() of the ring buffer, in clock ticks, and trades
\* the stream delivers.
MaxNow == 3
MaxTrades == 3
\* TradeRingBuffer at model scale: max_size, max_age_minutes and
\* _cleanup_interval (the last two in clock ticks); the largest batch handed
\* to add_trades_batch and the largest window asked of get_trades.
RingCap == 2
RingMaxAge == 2
CleanupInterval == 1
MaxBatch == 2
MaxWindow == 2
\* TradeBuffer at model scale: max_size and max_age_seconds (in clock ticks);
\* the largest page size and the largest lookback asked of the collector.
TradeBufferCap == 3
TradeBufferMaxAge == 2
MaxLimit == 2
MaxLookback == 2
\* Clock readings of the collector and trades on the exchange's tape.
MaxFetchNow == 2
MaxTape == 2
\* Largest RetryConfig.max_retries.
MaxRetries == 2
\* One tool's ParameterCache at model scale: its default_ttl in clock ticks,
\* the distinct normalized argument sets (cache keys), the clock readings
\* and the responses the tool computes.
CacheTtl == 1
MaxKeys == 2
MaxCacheNow == 3
MaxResponses == 3
\* One symbol's filters and the orders checked against them: the largest
\* tick, step, minimum quantity and minimum notional, the largest price and
\* quantity a caller writes, and the longest list of take profits.
MaxTick == 2
MaxStep == 2
MaxMinQty == 2
MaxMinNotional == 3
MaxPrice == 3
MaxOrderQty == 3
MaxPlanTPs == 2
\* The largest leverage a caller asks for (below the tool's cap) and the
\* number of set_leverage calls in a row.
MaxLeverage == 3
MaxLeverageCalls == 3
\* The largest value and the largest tick or step given to a rounding call.
MaxRoundValue == 25
MaxRoundSize == 10

\* The largest leverage set_leverage accepts (set_leverage.py:73).
LeverageCap == 125

\* ------------------------------------------------------------- order ids
\* The exchange assigns distinct positive order ids; 0 stands for None.
EntryId == 1
SlId == 2

TpId(i) == SlId + i

ExitIds == {SlId} \cup {TpId(i) : i \in 1..MaxTPs}

VARIABLES
    cfg,         \* arguments of place_bracket_orders_futures (after rounding)
    ex,          \* the exchange: entry order, exit orders, exit quantities
    job,         \* job_data: the dict stored in _bracket_jobs[job_id]
    registered,  \* job_id \in _bracket_jobs
    cpc,         \* position of place_bracket_orders_futures
    pl,          \* locals of _place_exit_orders
    w,           \* position and locals of _monitor_bracket
    k,           \* position and locals of cancel_bracket_job
    capElapsed,  \* time.time() - start_time >= max_wait
    hist,        \* requests sent and observations made so far
    ttl,         \* the TTL cancel job: cancel_on_ttl, _ttl_worker, cancel_ttl_job
    pe,          \* one run of _place_exit_orders on its own
    rq,          \* one call of FuturesClient.request
    ws,          \* BinanceWSClient: its thread, its connection, its callers
    rb,          \* one TradeRingBuffer with its stream and its readers
    mc,          \* MarketDataCollector: one symbol's TradeBuffer and its fetches
    rt,          \* one call through a retry wrapper of rate_limit_utils.py
    an,          \* one tool's ParameterCache and the calls of that tool
    lk,          \* the locks: who holds each, and each thread's position
    ov,          \* OrderValidator: a symbol's filters and one validation call
    lv           \* set_leverage: the exchange's leverage and the calls of the tool

bvars == <<cfg, ex, job, registered, cpc, pl, w, k, capElapsed, hist>>

\* The market-data and validation parts.
avars == <<rb, mc, rt, an, lk, ov, lv>>

\* The parts that neither the bracket job nor the TTL job touches.
ovars == <<pe, rq, ws, avars>>

vars == <<cfg, ex, job, registered, cpc, pl, w, k, capElapsed, hist, ttl, pe,
          rq, ws, rb, mc, rt, an,
          lk, ov, lv>>

\* ------------------------------------------------------------ pure parts

Open(st) == st \in {"NEW", "PARTIALLY_FILLED"}

\* A monitor that takes any entry the exchange still knows as filled.
EntryFillObserved_AnyLive(status, executed_qty) ==
    status \in {"FILLED", "PARTIALLY_FILLED", "NEW"}

\* bracket_orders.py:105
EntryFillObserved(status, executed_qty) ==
    status = "FILLED" \/ (status = "PARTIALLY_FILLED" /\ executed_qty > 0)

\* bracket_orders.py:126
EntryFailedObserved(status) ==
    status \in {"CANCELED", "CANCELLED", "EXPIRED", "REJECTED"}

\* bracket_orders.py:162
ExitTriggered(status) == status = "FILLED"

\* bracket_orders.py:656
CannotCancel(status) == status \in {"completed", "error", "cancelled"}

\* bracket_orders.py:137
AllExitIds(sl_order_id, tp_order_ids) ==
    (IF sl_order_id # 0 THEN <<sl_order_id>> ELSE <<>>) \o tp_order_ids

\* An OCO cancel that leaves the stop loss in place.
OthersToCancel_KeepSL(all_exit_ids, triggered_order) ==
    SelectSeq(all_exit_ids, LAMBDA id : id # triggered_order /\ id # SlId)

\* bracket_orders.py:172-173: the exits the worker cancels after a trigger
OthersToCancel(all_exit_ids, triggered_order) ==
    SelectSeq(all_exit_ids, LAMBDA id : id # triggered_order)

\* A monitor that marks the job itself when it sees the flag, as the TTL
\* worker does.
WorkerOnCancelled_Marks(j) == [j EXCEPT !.status = "cancelled"]

\* bracket_orders.py:96-98: the worker returns, the job is left as it is
WorkerOnCancelled(j) == j

\* A monitor that reports the cap as a completion.
TimeoutStatus_Completed == "completed"

\* bracket_orders.py:190
TimeoutStatus == "monitoring_timeout"

Range(s) == {s[i] : i \in 1..Len(s)}

Min(a, b) == IF a < b THEN a ELSE b

\* A take-profit quantity that ignores what is left of the fill.
TpQty_SpecOnly(spec_qty, remaining_qty) == spec_qty

\* bracket_orders.py:244-248
TpQty(spec_qty, remaining_qty) == Min(spec_qty, remaining_qty)

\* Outcomes of DELETE /fapi/v1/order as _cancel_order_silent reports them:
\* an open order is cancelled or the request fails; any other order fails.
CancelOutcomes(st) == IF Open(st) THEN {TRUE, FALSE} ELSE {FALSE}

OrderStatus(id) == IF id = EntryId THEN ex.entry.status ELSE ex.exit[id]

ExAfterCancel(id, ok) ==
    IF ~ok THEN ex
    ELSE IF id = EntryId THEN [ex EXCEPT !.entry.status = "CANCELED"]
    ELSE [ex EXCEPT !.exit[id] = "CANCELED"]

\* --------------------------------------------------------------- initial

TpSpecs == UNION {[1..n -> 1..MaxQty] : n \in 0..MaxTPs}

NoPl == [stage |-> "none", F |-> 0, i |-> 0, remaining_qty |-> 0,
         sl_order_id |-> 0, tp_order_ids |-> <<>>,
         sl_error |-> FALSE, tp_errors |-> <<>>]

NoJob == [status |-> "none", cancelled |-> FALSE, entry_status |-> "none",
          entry_filled |-> FALSE, filled_qty |-> 0,
          sl_order_id |-> 0, tp_order_ids |-> <<>>,
          exit_orders_placed |-> FALSE,
          triggered_exit |-> 0, cancelled_exits |-> <<>>,
          trigger_type |-> "none", error |-> FALSE,
          sl_error |-> FALSE, tp_errors |-> <<>>]

NoWorker == [pc |-> "none", sl_order_id |-> 0, tp_order_ids |-> <<>>,
             exit_orders_placed |-> FALSE, status |-> "none",
             executed_qty |-> 0, all_exit_ids |-> <<>>, idx |-> 0,
             triggered_order |-> 0, cancelled_orders |-> <<>>]

NoCanceller == [pc |-> "idle", ret |-> "none",
                cancelled_orders |-> <<>>, failed_cancellations |-> <<>>,
                tps |-> <<>>, i |-> 0]

WorkerDone == [NoWorker EXCEPT !.pc = "done"]

NoHist == [posted |-> {}, wCancelReqs |-> {}, entryAtSubmit |-> "none",
           entryObs |-> [status |-> "none", executed_qty |-> 0],
           flagBeforePlacement |-> FALSE, wWrote |-> FALSE]

NoExchange == [entry |-> [status |-> "NONE", executed |-> 0],
               exit |-> [id \in ExitIds |-> "NONE"],
               qty |-> [id \in ExitIds |-> 0]]

\* No TTL call in progress and none to come.
TtlIdle == [blocking |-> FALSE, by_client_id |-> FALSE, order |-> "NONE",
            cpc |-> "done", cret |-> "none", reg |-> FALSE,
            job |-> [status |-> "none", cancelled |-> FALSE,
                     action |-> "none", error |-> FALSE],
            wpc |-> "none", order_status |-> "none", kret |-> "none",
            deletes |-> 0, kSucceeded |-> FALSE]

\* No run of _place_exit_orders on its own.
PeIdle == [stage |-> "none", F |-> 0, sl |-> FALSE, tp_specs |-> <<>>,
           i |-> 0, remaining_qty |-> 0, sl_qty |-> 0, tp_qtys |-> <<>>]

\* A dict of request parameters: its keys in insertion order, the value
\* under `timestamp` (-1: none) and the value under `signature`, which is the
\* query string it was computed over (its keys and its timestamp).
NoSignature == [over |-> <<>>, timestamp |-> -1]

CallerParams == [keys |-> <<"symbol">>, timestamp |-> -1,
                 signature |-> NoSignature]

\* No call of FuturesClient.request.
RqIdle == [pc |-> "idle", supported |-> TRUE, signed |-> FALSE,
           retry_on_time_error |-> FALSE, params |-> CallerParams,
           now |-> 0, offset |-> 0, sends |-> 0, sent |-> <<>>,
           code |-> 0, code2 |-> 0, resynced |-> FALSE, ret |-> 0]

\* BinanceWSClient.__init__ (ws_trade_buffer.py:183-190); `open` is the
\* connection itself, `url` the streams of the URL being connected,
\* `requested` the streams asked for on the current connection.
WsNew == [pc |-> "idle", running |-> FALSE, connected |-> FALSE,
          ws_set |-> FALSE, open |-> FALSE, subscribed |-> {},
          url |-> {}, requested |-> {}, reconnect_attempt |-> 0,
          handled |-> 0, stopping |-> FALSE, grace |-> FALSE]

\* TradeRingBuffer.__init__ (ws_trade_buffer.py:63-76) at clock reading 0.
\* `n` counts the trades the stream has delivered and `last_T` is the
\* timestamp of the last of them; `appended` lists every trade ever handed
\* to the deque; `got` is the result of the last get_trades.
RbNew == [now |-> 0, trades |-> <<>>, last_cleanup |-> 0, n |-> 0,
          last_T |-> 0, appended |-> <<>>, asked |-> FALSE, got |-> <<>>]

\* No call of fetch_historical_trades. `start_time_ms` is the argument of
\* the call and `held` the number of trades the exchange held when the call
\* was made.
NoFetch == [pc |-> "none", current_start |-> 0, end_time_ms |-> 0,
            limit |-> 0, all_trades |-> <<>>, fetched |-> <<>>,
            pushed |-> <<>>, success |-> FALSE, ret |-> <<>>,
            start_time_ms |-> 0, held |-> 0]

\* MarketDataCollector.__init__ (market_data_collector.py:193-197) at clock
\* reading 0, with the one symbol's TradeBuffer (139-142). `tape` holds the
\* timestamps of the exchange's aggregated trades, trade i being its i-th;
\* `cached` gives, per limit, when fetch_recent_trades last stored a result
\* (-1: never); `got` is the result of the last get_buffered_trades.
McNew == [now |-> 0, tape |-> <<>>, buf |-> <<>>,
          cached |-> [l \in 1..MaxLimit |-> -1], hf |-> NoFetch,
          asked |-> FALSE, got |-> <<>>]

\* No call through a retry wrapper. `outcomes` lists what each invocation of
\* the wrapped call did; `ret` is what the wrapper returned.
NoReturn == [success |-> FALSE, kind |-> "none", code |-> 0]

RtIdle == [pc |-> "idle", wrapper |-> "none", max_retries |-> 0,
           attempt |-> 0, last_error |-> FALSE, outcomes |-> <<>>,
           ret |-> NoReturn]

\* A tool response: `id` stands for everything in the payload but the
\* `_cache_hit` stamp (0: an error response).
NoResponse == [id |-> 0, cache_hit |-> FALSE]

\* No cache entry under a key (ParameterCache.__init__,
\* rate_limit_utils.py:75-80).
NoEntry == [present |-> FALSE, at |-> 0, value |-> NoResponse]

\* A tool with its cache and no call yet. `prev` is the call before the
\* current one: its key, whether it succeeded, its payload and the clock
\* reading of its cache.set.
NoCall == [key |-> 0, success |-> FALSE, id |-> 0, at |-> 0]

AnNew == [now |-> 0, cache |-> [key \in 1..MaxKeys |-> NoEntry],
          pc |-> "idle", via |-> "none", key |-> 0, started |-> 0,
          fetched |-> FALSE, success |-> FALSE, at |-> 0, ret |-> NoResponse,
          prev |-> NoCall, computed |-> 0]

\* The threads that take the locks, and the locks: the two job registries
\* (bracket_orders.py:33, cancel_on_ttl.py:27), the collector's cache, its
\* buffer table and its trade buffer (market_data_collector.py:98, 197, 141)
\* and the rate tracker (rate_limit_utils.py:370).
Threads == {"monitor", "canceller", "ttl_worker", "ttl_canceller", "fetcher",
            "limited"}

Locks == {"_bracket_jobs_lock", "_jobs_lock", "cache", "buffers", "buffer",
          "tracker"}

\* No thread has started.
LkIdle == [pc |-> [t \in Threads |-> "none"],
           holder |-> [l \in Locks |-> "none"],
           in_flight |-> {}]

\* A price, a quantity or a percentage that was not given (Python's None).
None == -1

\* The filters before any symbol is looked up, and no validation call.
NoFilters == [tick_size |-> 1, step_size |-> 1, min_qty |-> 1, max_qty |-> 1,
              min_notional |-> 1, market_step_size |-> 1,
              market_min_qty |-> 1, market_max_qty |-> 1]

\* What a validation call hands back: whether the order or plan was reported
\* valid (for a bracket: whether its entry was sent), and the rounded values.
NoResult == [accepted |-> FALSE, side |-> "none", type |-> "none",
             price |-> None, quantity |-> None, stop |-> None, tps |-> <<>>,
             warnings |-> {}, suggested |-> None]

\* The value and the tick or step a rounding call was given.
NoArgs == [value |-> None, size |-> None]

OvIdle == [filters |-> NoFilters, call |-> "none", result |-> NoResult,
          args |-> NoArgs]

\* No call of set_leverage yet: what a call asked for, what its pre-read
\* showed, whether it sent the POST and what it returned.
NoLeverageCall == [leverage |-> 0, read |-> "none", current_leverage |-> None,
                   posted |-> FALSE, post |-> "none", success |-> FALSE,
                   already_set |-> FALSE]

LvIdle == [leverage |-> 1, calls |-> 0, last |-> NoLeverageCall,
           prev |-> NoLeverageCall]

\* avars-idle-records

AnalyticsIdle == rb = RbNew /\ mc = McNew /\ rt = RtIdle /\ an = AnNew
                 /\ lk = LkIdle /\ ov = OvIdle
                 /\ lv = LvIdle

OthersIdle == pe = PeIdle /\ rq = RqIdle /\ ws = WsNew /\ AnalyticsIdle

Init ==
    /\ OthersIdle
    /\ ttl = TtlIdle
    /\ cfg \in [wait_for_entry : BOOLEAN, sl : BOOLEAN,
                tp_specs : TpSpecs, quantity : {MaxQty}]
    /\ ex = NoExchange
    /\ job = NoJob
    /\ registered = FALSE
    /\ cpc = "submit"
    /\ pl = NoPl
    /\ w = NoWorker
    /\ k = NoCanceller
    /\ capElapsed = FALSE
    /\ hist = NoHist

\* ------------------------------------------- place_bracket_orders_futures

StartPl(F) == [NoPl EXCEPT !.stage = "sl", !.F = F, !.remaining_qty = F]

\* bracket_orders.py:497-571: submit the entry, build job_data, choose
\* between placing the exits now and leaving them to the monitor.
SubmitEntry ==
    /\ cpc = "submit"
    /\ \E st \in {"REJECTED", "NEW", "PARTIALLY_FILLED", "FILLED"} :
       \E e \in 0..cfg.quantity :
        /\ st = "REJECTED" => e = 0
        /\ st = "NEW" => e = 0
        /\ st = "PARTIALLY_FILLED" => (0 < e /\ e < cfg.quantity)
        /\ st = "FILLED" => e = cfg.quantity
        /\ IF st = "REJECTED"
             THEN /\ cpc' = "done"
                  /\ UNCHANGED <<ex, job, pl, hist>>
             ELSE /\ ex' = [ex EXCEPT !.entry = [status |-> st, executed |-> e]]
                  /\ job' = [NoJob EXCEPT !.status = "active",
                                          !.entry_status = st,
                                          !.entry_filled = (st = "FILLED"),
                                          !.filled_qty = e]
                  /\ hist' = [hist EXCEPT !.entryAtSubmit = st]
                  /\ IF st = "FILLED" \/ ~cfg.wait_for_entry
                       THEN /\ cpc' = "place"
                            /\ pl' = StartPl(IF e <= 0 THEN cfg.quantity ELSE e)
                       ELSE /\ cpc' = "store"
                            /\ pl' = pl
    /\ UNCHANGED <<ovars, ttl, cfg, registered, w, k, capElapsed>>

\* ------------------------------------------------------ _place_exit_orders

Placing == cpc = "place" \/ w.pc = "place"

\* An exception out of _place_single_order (client.post raising before its
\* own try block): the creator returns tool_error with no job stored, the
\* worker lands in its except clause.
PlaceRaises ==
    /\ pl' = NoPl
    /\ IF cpc = "place"
         THEN cpc' = "done" /\ w' = w
         ELSE cpc' = cpc /\ w' = [w EXCEPT !.pc = "error"]
    /\ UNCHANGED <<ex, hist>>

StageAfter(i) == IF i > Len(cfg.tp_specs) THEN "ret" ELSE "tp"

\* bracket_orders.py:221-239
PlaceSL ==
    /\ Placing
    /\ pl.stage = "sl"
    /\ IF ~cfg.sl
         THEN /\ pl' = [pl EXCEPT !.stage = StageAfter(1), !.i = 1]
              /\ UNCHANGED <<ex, hist, cpc, w>>
         ELSE \E r \in {"ok", "rejected", "raise"} :
                IF r = "raise" THEN PlaceRaises
                ELSE /\ hist' = [hist EXCEPT !.posted = @ \cup {SlId}]
                     /\ pl' = [pl EXCEPT !.stage = StageAfter(1), !.i = 1,
                                 !.sl_order_id = IF r = "ok" THEN SlId ELSE 0,
                                 !.sl_error = (r # "ok")]
                     /\ ex' = IF r = "ok"
                                THEN [ex EXCEPT !.exit[SlId] = "NEW",
                                                !.qty[SlId] = pl.F]
                                ELSE ex
                     /\ UNCHANGED <<cpc, w>>
    /\ UNCHANGED <<ovars, ttl, cfg, job, registered, k, capElapsed>>

\* bracket_orders.py:243-280, one iteration of the loop over tp_specs
PlaceTP ==
    /\ Placing
    /\ pl.stage = "tp"
    /\ LET i == pl.i
           tp_qty == TpQty(cfg.tp_specs[i], pl.remaining_qty)
       IN IF tp_qty <= 0
            THEN /\ pl' = [pl EXCEPT !.stage = StageAfter(i + 1), !.i = i + 1]
                 /\ UNCHANGED <<ex, hist, cpc, w>>
            ELSE \E r \in {"ok", "rejected", "raise"} :
                   IF r = "raise" THEN PlaceRaises
                   ELSE /\ hist' = [hist EXCEPT !.posted = @ \cup {TpId(i)}]
                        /\ pl' = [pl EXCEPT
                             !.stage = StageAfter(i + 1), !.i = i + 1,
                             !.tp_order_ids =
                                 IF r = "ok" THEN Append(@, TpId(i)) ELSE @,
                             !.remaining_qty =
                                 IF r = "ok" THEN @ - tp_qty ELSE @,
                             !.tp_errors =
                                 IF r = "ok" THEN @ ELSE Append(@, i)]
                        /\ ex' = IF r = "ok"
                                   THEN [ex EXCEPT !.exit[TpId(i)] = "NEW",
                                                   !.qty[TpId(i)] = tp_qty]
                                   ELSE ex
                        /\ UNCHANGED <<cpc, w>>
    /\ UNCHANGED <<ovars, ttl, cfg, job, registered, k, capElapsed>>

\* An update that fails the job when an exit was rejected.
JobUpdated_FailsOnReject(j) ==
    [j EXCEPT !.sl_order_id = pl.sl_order_id,
              !.tp_order_ids = pl.tp_order_ids,
              !.exit_orders_placed = TRUE,
              !.sl_error = pl.sl_error,
              !.tp_errors = pl.tp_errors,
              !.status = IF pl.sl_error \/ pl.tp_errors # <<>>
                           THEN "error" ELSE @]

\* dict.update(exits_result)
JobUpdated(j) ==
    [j EXCEPT !.sl_order_id = pl.sl_order_id,
              !.tp_order_ids = pl.tp_order_ids,
              !.exit_orders_placed = TRUE,
              !.sl_error = pl.sl_error,
              !.tp_errors = pl.tp_errors]

\* bracket_orders.py:558-568
CreatorExitsDone ==
    /\ cpc = "place"
    /\ pl.stage = "ret"
    /\ job' = JobUpdated(job)
    /\ pl' = NoPl
    /\ cpc' = "store"
    /\ UNCHANGED <<ovars, ttl, cfg, ex, registered, w, k, capElapsed, hist>>

\* bracket_orders.py:573-575
StoreJob ==
    /\ cpc = "store"
    /\ registered' = TRUE
    /\ cpc' = "spawn"
    /\ UNCHANGED <<ovars, ttl, cfg, ex, job, pl, w, k, capElapsed, hist>>

\* bracket_orders.py:577-596
SpawnMonitor ==
    /\ cpc = "spawn"
    /\ cpc' = "done"
    /\ w' = IF (job.entry_status # "FILLED" /\ cfg.wait_for_entry)
               \/ job.sl_order_id # 0 \/ job.tp_order_ids # <<>>
              THEN [w EXCEPT !.pc = "start"]
              ELSE w
    /\ UNCHANGED <<ovars, ttl, cfg, ex, job, registered, pl, k, capElapsed, hist>>

\* --------------------------------------------------------- _monitor_bracket

\* bracket_orders.py:77-86: the worker's locals, read from job_data
MonitorStart ==
    /\ w.pc = "start"
    /\ w' = [w EXCEPT !.sl_order_id = job.sl_order_id,
                      !.tp_order_ids = job.tp_order_ids,
                      !.exit_orders_placed = job.exit_orders_placed,
                      !.pc = IF ~job.exit_orders_placed
                               THEN "p1_check" ELSE "p2_init"]
    /\ UNCHANGED <<ovars, ttl, cfg, ex, job, registered, cpc, pl, k, capElapsed, hist>>

\* bracket_orders.py:93-98: loop condition, then the cancelled flag
Phase1Check ==
    /\ w.pc = "p1_check"
    /\ IF capElapsed
         THEN w' = [w EXCEPT !.pc = "p2_init"] /\ job' = job
         ELSE IF job.cancelled
                THEN w' = WorkerDone /\ job' = WorkerOnCancelled(job)
                ELSE w' = [w EXCEPT !.pc = "p1_fetch"] /\ job' = job
    /\ UNCHANGED <<ovars, ttl, cfg, ex, registered, cpc, pl, k, capElapsed, hist>>

\* bracket_orders.py:100-105, 126, 134: fetch the entry, branch on it;
\* _get_order_status_data gives None when the request fails
Phase1Fetch ==
    /\ w.pc = "p1_fetch"
    /\ \E got \in BOOLEAN :
         IF ~got
           THEN w' = [w EXCEPT !.pc = "p1_sleep"] /\ hist' = hist
           ELSE LET status == ex.entry.status
                    executed_qty == ex.entry.executed
                IN /\ hist' = [hist EXCEPT !.entryObs =
                                 [status |-> status, executed_qty |-> executed_qty]]
                   /\ w' = [w EXCEPT
                        !.status = status,
                        !.executed_qty = executed_qty,
                        !.pc = IF EntryFillObserved(status, executed_qty)
                                 THEN "p1_record"
                               ELSE IF EntryFailedObserved(status)
                                 THEN "p1_failed"
                               ELSE "p1_sleep"]
    /\ UNCHANGED <<ovars, ttl, cfg, ex, job, registered, cpc, pl, k, capElapsed>>

\* bracket_orders.py:134
Phase1Sleep ==
    /\ w.pc = "p1_sleep"
    /\ w' = [w EXCEPT !.pc = "p1_check"]
    /\ UNCHANGED <<ovars, ttl, cfg, ex, job, registered, cpc, pl, k, capElapsed, hist>>

\* bracket_orders.py:109-116
Phase1Record ==
    /\ w.pc = "p1_record"
    /\ job' = [job EXCEPT !.entry_filled = TRUE, !.filled_qty = w.executed_qty]
    /\ pl' = StartPl(w.executed_qty)
    /\ w' = [w EXCEPT !.pc = "place"]
    /\ hist' = [hist EXCEPT !.wWrote = TRUE]
    /\ UNCHANGED <<ovars, ttl, cfg, ex, registered, cpc, k, capElapsed>>

\* bracket_orders.py:118-124
MonitorExitsDone ==
    /\ w.pc = "place"
    /\ pl.stage = "ret"
    /\ job' = JobUpdated(job)
    /\ w' = [w EXCEPT !.sl_order_id = pl.sl_order_id,
                      !.tp_order_ids = pl.tp_order_ids,
                      !.exit_orders_placed = TRUE,
                      !.pc = "p2_init"]
    /\ pl' = NoPl
    /\ hist' = [hist EXCEPT !.wWrote = TRUE]
    /\ UNCHANGED <<ovars, ttl, cfg, ex, registered, cpc, k, capElapsed>>

\* bracket_orders.py:129-132
Phase1Failed ==
    /\ w.pc = "p1_failed"
    /\ job' = [job EXCEPT !.status = "entry_failed", !.entry_status = w.status]
    /\ w' = WorkerDone
    /\ hist' = [hist EXCEPT !.wWrote = TRUE]
    /\ UNCHANGED <<ovars, ttl, cfg, ex, registered, cpc, pl, k, capElapsed>>

\* bracket_orders.py:137-143
Phase2Init ==
    /\ w.pc = "p2_init"
    /\ LET all == AllExitIds(w.sl_order_id, w.tp_order_ids)
       IN IF all = <<>>
            THEN /\ job' = [job EXCEPT !.status = "completed"]
                 /\ w' = WorkerDone
                 /\ hist' = [hist EXCEPT !.wWrote = TRUE]
            ELSE /\ w' = [w EXCEPT !.all_exit_ids = all, !.pc = "p2_check"]
                 /\ UNCHANGED <<job, hist>>
    /\ UNCHANGED <<ovars, ttl, cfg, ex, registered, cpc, pl, k, capElapsed>>

\* bracket_orders.py:147-155
Phase2Check ==
    /\ w.pc = "p2_check"
    /\ IF capElapsed
         THEN w' = [w EXCEPT !.pc = "p2_timeout"] /\ job' = job
         ELSE IF job.cancelled
                THEN w' = WorkerDone /\ job' = WorkerOnCancelled(job)
                ELSE /\ w' = [w EXCEPT !.pc = "p2_poll", !.idx = 1,
                                       !.triggered_order = 0]
                     /\ job' = job
    /\ UNCHANGED <<ovars, ttl, cfg, ex, registered, cpc, pl, k, capElapsed, hist>>

\* bracket_orders.py:158-171, 186: one status fetch of the loop over
\* all_exit_ids; the first FILLED ends the loop
Phase2Poll ==
    /\ w.pc = "p2_poll"
    /\ LET exit_id == w.all_exit_ids[w.idx]
           last == w.idx = Len(w.all_exit_ids)
       IN \E got \in BOOLEAN :
            IF got /\ ExitTriggered(ex.exit[exit_id])
              THEN LET others == OthersToCancel(w.all_exit_ids, exit_id)
                   IN w' = [w EXCEPT !.triggered_order = exit_id,
                                     !.cancelled_orders = <<>>,
                                     !.idx = 1,
                                     !.pc = IF others = <<>>
                                              THEN "p2_complete"
                                              ELSE "p2_cancel"]
              ELSE w' = [w EXCEPT !.idx = IF last THEN 0 ELSE @ + 1,
                                  !.pc = IF last THEN "p2_sleep" ELSE "p2_poll"]
    /\ UNCHANGED <<ovars, ttl, cfg, ex, job, registered, cpc, pl, k, capElapsed, hist>>

\* bracket_orders.py:186
Phase2Sleep ==
    /\ w.pc = "p2_sleep"
    /\ w' = [w EXCEPT !.pc = "p2_check"]
    /\ UNCHANGED <<ovars, ttl, cfg, ex, job, registered, cpc, pl, k, capElapsed, hist>>

\* bracket_orders.py:172-175: one silent cancel of the loop over the others
Phase2Cancel ==
    /\ w.pc = "p2_cancel"
    /\ LET others == OthersToCancel(w.all_exit_ids, w.triggered_order)
           exit_id == others[w.idx]
           last == w.idx = Len(others)
       IN \E ok \in CancelOutcomes(ex.exit[exit_id]) :
            /\ ex' = ExAfterCancel(exit_id, ok)
            /\ hist' = [hist EXCEPT !.wCancelReqs = @ \cup {exit_id}]
            /\ w' = [w EXCEPT
                 !.cancelled_orders = IF ok THEN Append(@, exit_id) ELSE @,
                 !.idx = IF last THEN 0 ELSE @ + 1,
                 !.pc = IF last THEN "p2_complete" ELSE "p2_cancel"]
    /\ UNCHANGED <<ovars, ttl, cfg, job, registered, cpc, pl, k, capElapsed>>

\* bracket_orders.py:177-184
Phase2Complete ==
    /\ w.pc = "p2_complete"
    /\ job' = [job EXCEPT
         !.status = "completed",
         !.triggered_exit = w.triggered_order,
         !.cancelled_exits = w.cancelled_orders,
         !.trigger_type = IF w.triggered_order = w.sl_order_id THEN "sl" ELSE "tp"]
    /\ w' = WorkerDone
    /\ hist' = [hist EXCEPT !.wWrote = TRUE]
    /\ UNCHANGED <<ovars, ttl, cfg, ex, registered, cpc, pl, k, capElapsed>>

\* bracket_orders.py:188-191
Phase2Timeout ==
    /\ w.pc = "p2_timeout"
    /\ job' = [job EXCEPT !.status = TimeoutStatus]
    /\ w' = WorkerDone
    /\ hist' = [hist EXCEPT !.wWrote = TRUE]
    /\ UNCHANGED <<ovars, ttl, cfg, ex, registered, cpc, pl, k, capElapsed>>

\* A monitor whose exception ends the thread with nothing written.
MonitorError_Dies ==
    /\ w.pc = "error"
    /\ w' = WorkerDone
    /\ UNCHANGED <<ovars, ttl, cfg, ex, job, registered, cpc, pl, k, capElapsed, hist>>

\* bracket_orders.py:193-197
MonitorError ==
    /\ w.pc = "error"
    /\ job' = [job EXCEPT !.status = "error", !.error = TRUE]
    /\ w' = WorkerDone
    /\ hist' = [hist EXCEPT !.wWrote = TRUE]
    /\ UNCHANGED <<ovars, ttl, cfg, ex, registered, cpc, pl, k, capElapsed>>

\* -------------------------------------------------------- cancel_bracket_job

BeforePlacement ==
    w.pc \in {"none", "start", "p1_check", "p1_fetch", "p1_sleep", "p1_record"}

\* bracket_orders.py:650-668
CancelStart ==
    /\ k.pc = "idle"
    /\ IF ~registered
         THEN /\ k' = [k EXCEPT !.ret = "not_found"]
              /\ UNCHANGED <<job, hist>>
         ELSE IF CannotCancel(job.status)
           THEN /\ k' = [k EXCEPT !.ret = "cannot_cancel"]
                /\ UNCHANGED <<job, hist>>
           ELSE /\ job' = [job EXCEPT !.cancelled = TRUE]
                /\ k' = [k EXCEPT !.ret = "none",
                                  !.pc = "k_entry",
                                  !.cancelled_orders = <<>>,
                                  !.failed_cancellations = <<>>]
                /\ hist' = [hist EXCEPT !.flagBeforePlacement =
                              @ \/ (~job.exit_orders_placed /\ BeforePlacement)]
    /\ UNCHANGED <<ovars, ttl, cfg, ex, registered, cpc, pl, w, capElapsed>>

\* A cancel whose failure is dropped instead of being filed.
CancelSent_DropsFailures(order_id, next_pc) ==
    \E ok \in CancelOutcomes(OrderStatus(order_id)) :
        /\ ex' = ExAfterCancel(order_id, ok)
        /\ k' = [k EXCEPT
             !.cancelled_orders = IF ok THEN Append(@, order_id) ELSE @,
             !.pc = next_pc]

\* One _cancel_order_silent of cancel_bracket_job, filed under its outcome
CancelSent(order_id, next_pc) ==
    \E ok \in CancelOutcomes(OrderStatus(order_id)) :
        /\ ex' = ExAfterCancel(order_id, ok)
        /\ k' = [k EXCEPT
             !.cancelled_orders = IF ok THEN Append(@, order_id) ELSE @,
             !.failed_cancellations = IF ok THEN @ ELSE Append(@, order_id),
             !.pc = next_pc]

\* bracket_orders.py:670-675
CancelEntry ==
    /\ k.pc = "k_entry"
    /\ IF ~job.entry_filled
         THEN CancelSent(EntryId, "k_sl")
         ELSE k' = [k EXCEPT !.pc = "k_sl"] /\ ex' = ex
    /\ UNCHANGED <<ovars, ttl, cfg, job, registered, cpc, pl, w, capElapsed, hist>>

\* bracket_orders.py:677-685: the SL, then the list the TP loop iterates
CancelSL ==
    /\ k.pc = "k_sl"
    /\ LET next_pc == IF job.tp_order_ids = <<>> THEN "k_finish" ELSE "k_tp"
       IN IF job.sl_order_id # 0
            THEN \E ok \in CancelOutcomes(OrderStatus(job.sl_order_id)) :
                   /\ ex' = ExAfterCancel(job.sl_order_id, ok)
                   /\ k' = [k EXCEPT
                        !.cancelled_orders =
                            IF ok THEN Append(@, job.sl_order_id) ELSE @,
                        !.failed_cancellations =
                            IF ok THEN @ ELSE Append(@, job.sl_order_id),
                        !.tps = job.tp_order_ids, !.i = 1,
                        !.pc = next_pc]
            ELSE /\ k' = [k EXCEPT !.tps = job.tp_order_ids, !.i = 1,
                                   !.pc = next_pc]
                 /\ ex' = ex
    /\ UNCHANGED <<ovars, ttl, cfg, job, registered, cpc, pl, w, capElapsed, hist>>

\* bracket_orders.py:685-689
CancelTP ==
    /\ k.pc = "k_tp"
    /\ LET tp_id == k.tps[k.i]
           last == k.i = Len(k.tps)
       IN \E ok \in CancelOutcomes(OrderStatus(tp_id)) :
            /\ ex' = ExAfterCancel(tp_id, ok)
            /\ k' = [k EXCEPT
                 !.cancelled_orders = IF ok THEN Append(@, tp_id) ELSE @,
                 !.failed_cancellations = IF ok THEN @ ELSE Append(@, tp_id),
                 !.i = IF last THEN 0 ELSE @ + 1,
                 !.tps = IF last THEN <<>> ELSE @,
                 !.pc = IF last THEN "k_finish" ELSE "k_tp"]
    /\ UNCHANGED <<ovars, ttl, cfg, job, registered, cpc, pl, w, capElapsed, hist>>

\* bracket_orders.py:691-700
CancelFinish ==
    /\ k.pc = "k_finish"
    /\ job' = [job EXCEPT !.status = "cancelled"]
    /\ k' = [NoCanceller EXCEPT !.ret = "success"]
    /\ UNCHANGED <<ovars, ttl, cfg, ex, registered, cpc, pl, w, capElapsed, hist>>

\* ----------------------------------------------------------- the exchange

\* The entry order trades: part of it, or all of it.
EntryFills ==
    /\ Open(ex.entry.status)
    /\ \E e \in (ex.entry.executed + 1)..cfg.quantity :
         ex' = [ex EXCEPT !.entry =
                  [status |-> IF e = cfg.quantity THEN "FILLED"
                              ELSE "PARTIALLY_FILLED",
                   executed |-> e]]
    /\ UNCHANGED <<ovars, ttl, cfg, job, registered, cpc, pl, w, k, capElapsed, hist>>

\* The exchange ends the entry order (time in force, self-trade prevention).
EntryExpires ==
    /\ Open(ex.entry.status)
    /\ ex' = [ex EXCEPT !.entry.status = "EXPIRED"]
    /\ UNCHANGED <<ovars, ttl, cfg, job, registered, cpc, pl, w, k, capElapsed, hist>>

\* A placed stop or take-profit triggers and fills.
ExitFills ==
    /\ \E id \in ExitIds :
         /\ ex.exit[id] = "NEW"
         /\ ex' = [ex EXCEPT !.exit[id] = "FILLED"]
    /\ UNCHANGED <<ovars, ttl, cfg, job, registered, cpc, pl, w, k, capElapsed, hist>>

\* The exchange ends a reduce-only exit (the position it would reduce is gone).
ExitExpires ==
    /\ \E id \in ExitIds :
         /\ ex.exit[id] = "NEW"
         /\ ex' = [ex EXCEPT !.exit[id] = "EXPIRED"]
    /\ UNCHANGED <<ovars, ttl, cfg, job, registered, cpc, pl, w, k, capElapsed, hist>>

\* The worker is in a sleep or has an exchange request in flight.
MonitorBlocked ==
    w.pc \in {"p1_fetch", "p1_sleep", "place", "p2_poll", "p2_cancel", "p2_sleep"}

\* bracket_orders.py:84-85, 93, 147: the 1-hour cap, counted from the
\* worker's start, runs out while the worker is blocked
CapElapses ==
    /\ MonitorBlocked
    /\ ~capElapsed
    /\ capElapsed' = TRUE
    /\ UNCHANGED <<ovars, ttl, cfg, ex, job, registered, cpc, pl, w, k, hist>>

Next ==
    \/ SubmitEntry \/ PlaceSL \/ PlaceTP \/ CreatorExitsDone
    \/ StoreJob \/ SpawnMonitor
    \/ MonitorStart \/ Phase1Check \/ Phase1Fetch \/ Phase1Sleep \/ Phase1Record
    \/ MonitorExitsDone \/ Phase1Failed
    \/ Phase2Init \/ Phase2Check \/ Phase2Poll \/ Phase2Sleep \/ Phase2Cancel
    \/ Phase2Complete \/ Phase2Timeout \/ MonitorError
    \/ CancelStart \/ CancelEntry \/ CancelSL \/ CancelTP \/ CancelFinish
    \/ EntryFills \/ EntryExpires \/ ExitFills \/ ExitExpires \/ CapElapses

Spec == Init /\ [][Next]_vars

\* ================================================================== TTL

\* A worker that does not look at the flag after its sleep.
TtlSeesCancelled_Never(j) == FALSE

\* cancel_on_ttl.py:64
TtlSeesCancelled(j) == j.cancelled

\* A test that still lets a job be cancelled while it executes.
TtlCancellable_AlsoExecuting(status) ==
    status \in {"scheduled", "waiting", "executing"}

\* cancel_on_ttl.py:392
TtlCancellable(status) == status \in {"scheduled", "waiting"}

\* An activity test that forgets partially filled orders.
TtlActive_NewOnly(order_status) == order_status = "NEW"

\* An activity test that takes a filled order for a live one.
TtlActive_AlsoFilled(order_status) ==
    order_status \in {"NEW", "PARTIALLY_FILLED", "FILLED"}

\* cancel_on_ttl.py:85, 240, 269
TtlActive(order_status) == order_status \in {"NEW", "PARTIALLY_FILLED"}

\* No bracket call in progress and none to come.
BracketIdle ==
    /\ cfg = [wait_for_entry |-> FALSE, sl |-> FALSE, tp_specs |-> <<>>,
              quantity |-> MaxQty]
    /\ ex = NoExchange
    /\ job = NoJob
    /\ registered = FALSE
    /\ cpc = "done"
    /\ pl = NoPl
    /\ w = NoWorker
    /\ k = NoCanceller
    /\ capElapsed = FALSE
    /\ hist = NoHist

TtlInit ==
    /\ OthersIdle
    /\ BracketIdle
    /\ \E b \in BOOLEAN, c \in BOOLEAN,
          o \in {"NONE", "NEW", "PARTIALLY_FILLED", "FILLED", "CANCELED"} :
         ttl = [TtlIdle EXCEPT !.blocking = b, !.by_client_id = c, !.order = o,
                               !.cpc = IF c THEN "resolve" ELSE "verify"]

\* A GET /fapi/v1/order succeeds only for an order the exchange knows, and
\* may fail for any order (transport errors come back as success = False).
GetOutcomes == IF ttl.order = "NONE" THEN {FALSE} ELSE {TRUE, FALSE}

\* cancel_on_ttl.py:210-224
TtlResolve ==
    /\ ttl.cpc = "resolve"
    /\ \E ok \in GetOutcomes :
         ttl' = IF ok THEN [ttl EXCEPT !.cpc = "verify"]
                ELSE [ttl EXCEPT !.cpc = "done", !.cret = "order_not_found"]
    /\ UNCHANGED <<ovars, bvars>>

\* cancel_on_ttl.py:226-253
TtlVerify ==
    /\ ttl.cpc = "verify"
    /\ \E ok \in GetOutcomes :
         ttl' = IF ~ok
                  THEN [ttl EXCEPT !.cpc = "done", !.cret = "order_not_found"]
                ELSE IF ~TtlActive(ttl.order)
                  THEN [ttl EXCEPT !.cpc = "done", !.cret = "no_action"]
                ELSE [ttl EXCEPT !.cpc = IF ttl.blocking THEN "b_fetch"
                                         ELSE "register"]
    /\ UNCHANGED <<ovars, bvars>>

\* cancel_on_ttl.py:255-269, 291-303: the sleep is over, the status is
\* fetched again
TtlBlockingFetch ==
    /\ ttl.cpc = "b_fetch"
    /\ \E ok \in GetOutcomes :
         ttl' = IF ~ok
                  THEN [ttl EXCEPT !.cpc = "done", !.cret = "api_error"]
                ELSE IF TtlActive(ttl.order)
                  THEN [ttl EXCEPT !.cpc = "b_cancel",
                                   !.order_status = ttl.order]
                ELSE [ttl EXCEPT !.cpc = "done", !.cret = "no_action",
                                 !.order_status = ttl.order]
    /\ UNCHANGED <<ovars, bvars>>

\* cancel_on_ttl.py:271-290
TtlBlockingCancel ==
    /\ ttl.cpc = "b_cancel"
    /\ \E ok \in CancelOutcomes(ttl.order) :
         ttl' = [ttl EXCEPT !.cpc = "done",
                            !.cret = IF ok THEN "cancelled" ELSE "cancel_failed",
                            !.order = IF ok THEN "CANCELED" ELSE @]
    /\ UNCHANGED <<ovars, bvars>>

\* cancel_on_ttl.py:306-320
TtlRegister ==
    /\ ttl.cpc = "register"
    /\ ttl' = [ttl EXCEPT !.cpc = "spawn", !.reg = TRUE,
                          !.job = [status |-> "scheduled", cancelled |-> FALSE,
                                   action |-> "none", error |-> FALSE]]
    /\ UNCHANGED <<ovars, bvars>>

\* cancel_on_ttl.py:322-339
TtlSpawn ==
    /\ ttl.cpc = "spawn"
    /\ ttl' = [ttl EXCEPT !.cpc = "done", !.cret = "job", !.wpc = "start"]
    /\ UNCHANGED <<ovars, bvars>>

\* cancel_on_ttl.py:56-57
TtlWorkerStart ==
    /\ ttl.wpc = "start"
    /\ ttl' = [ttl EXCEPT !.job.status = "waiting", !.wpc = "sleep"]
    /\ UNCHANGED <<ovars, bvars>>

\* cancel_on_ttl.py:60-68: the sleep is over
TtlWorkerWake ==
    /\ ttl.wpc = "sleep"
    /\ ttl' = IF TtlSeesCancelled(ttl.job)
                THEN [ttl EXCEPT !.job.status = "cancelled", !.wpc = "done"]
                ELSE [ttl EXCEPT !.job.status = "executing", !.wpc = "fetch"]
    /\ UNCHANGED <<ovars, bvars>>

\* cancel_on_ttl.py:71-85: the status at execution time; the request may
\* also raise, which the except clause takes
TtlWorkerFetch ==
    /\ ttl.wpc = "fetch"
    /\ \/ \E ok \in GetOutcomes :
            ttl' = IF ~ok THEN [ttl EXCEPT !.wpc = "fetch_failed"]
                   ELSE [ttl EXCEPT !.order_status = ttl.order,
                                    !.wpc = IF TtlActive(ttl.order)
                                              THEN "cancel" ELSE "no_action"]
       \/ ttl' = [ttl EXCEPT !.wpc = "raised"]
    /\ UNCHANGED <<ovars, bvars>>

\* cancel_on_ttl.py:76-80
TtlWorkerFetchFailed ==
    /\ ttl.wpc = "fetch_failed"
    /\ ttl' = [ttl EXCEPT !.job.status = "error", !.job.error = TRUE,
                          !.wpc = "done"]
    /\ UNCHANGED <<ovars, bvars>>

\* cancel_on_ttl.py:86
TtlWorkerCancel ==
    /\ ttl.wpc = "cancel"
    /\ \/ \E ok \in CancelOutcomes(ttl.order) :
            ttl' = [ttl EXCEPT !.deletes = 1,
                               !.order = IF ok THEN "CANCELED" ELSE @,
                               !.wpc = IF ok THEN "cancel_ok" ELSE "cancel_failed"]
       \/ ttl' = [ttl EXCEPT !.wpc = "raised"]
    /\ UNCHANGED <<ovars, bvars>>

\* cancel_on_ttl.py:88-99
TtlWorkerCancelResult ==
    /\ ttl.wpc \in {"cancel_ok", "cancel_failed"}
    /\ ttl' = IF ttl.wpc = "cancel_ok"
                THEN [ttl EXCEPT !.job.status = "completed",
                                 !.job.action = "cancelled", !.wpc = "done"]
                ELSE [ttl EXCEPT !.job.status = "error", !.job.error = TRUE,
                                 !.wpc = "done"]
    /\ UNCHANGED <<ovars, bvars>>

\* cancel_on_ttl.py:100-110
TtlWorkerNoAction ==
    /\ ttl.wpc = "no_action"
    /\ ttl' = [ttl EXCEPT !.job.status = "completed",
                          !.job.action = "no_action", !.wpc = "done"]
    /\ UNCHANGED <<ovars, bvars>>

\* A worker whose except clause ends the thread with nothing written.
TtlWorkerError_Dies ==
    /\ ttl.wpc = "raised"
    /\ ttl' = [ttl EXCEPT !.wpc = "done"]
    /\ UNCHANGED <<ovars, bvars>>

\* cancel_on_ttl.py:114-118
TtlWorkerError ==
    /\ ttl.wpc = "raised"
    /\ ttl' = [ttl EXCEPT !.job.status = "error", !.job.error = TRUE,
                          !.wpc = "done"]
    /\ UNCHANGED <<ovars, bvars>>

\* cancel_on_ttl.py:386-406: one call, all of it under _jobs_lock
CancelTtlJob ==
    /\ ttl' = IF ~ttl.reg THEN [ttl EXCEPT !.kret = "not_found"]
              ELSE IF ~TtlCancellable(ttl.job.status)
                THEN [ttl EXCEPT !.kret = "cannot_cancel"]
              ELSE [ttl EXCEPT !.job.cancelled = TRUE,
                               !.job.status = "cancelled",
                               !.kret = "success", !.kSucceeded = TRUE]
    /\ ttl' # ttl
    /\ UNCHANGED <<ovars, bvars>>

\* The order trades: part of it, or all of it.
TtlOrderFills ==
    /\ TtlActive(ttl.order)
    /\ \E st \in {"PARTIALLY_FILLED", "FILLED"} :
         /\ st # ttl.order
         /\ ttl' = [ttl EXCEPT !.order = st]
    /\ UNCHANGED <<ovars, bvars>>

\* The exchange, or its owner, ends the order.
TtlOrderEnds ==
    /\ TtlActive(ttl.order)
    /\ \E st \in {"CANCELED", "EXPIRED"} : ttl' = [ttl EXCEPT !.order = st]
    /\ UNCHANGED <<ovars, bvars>>

TtlNext ==
    \/ TtlResolve \/ TtlVerify \/ TtlBlockingFetch \/ TtlBlockingCancel
    \/ TtlRegister \/ TtlSpawn
    \/ TtlWorkerStart \/ TtlWorkerWake \/ TtlWorkerFetch \/ TtlWorkerFetchFailed
    \/ TtlWorkerCancel \/ TtlWorkerCancelResult \/ TtlWorkerNoAction
    \/ TtlWorkerError
    \/ CancelTtlJob \/ TtlOrderFills \/ TtlOrderEnds

TtlSpec == TtlInit /\ [][TtlNext]_vars

\* ============================================= _place_exit_orders alone

PlaceTpSpecs == UNION {[1..n -> 1..MaxPlaceQty] : n \in 0..MaxPlaceTPs}

PeInit ==
    /\ BracketIdle
    /\ lv = LvIdle
    /\ ttl = TtlIdle
    /\ rq = RqIdle
    /\ ws = WsNew
    /\ AnalyticsIdle
    /\ \E f \in 1..MaxPlaceQty, b \in BOOLEAN, t \in PlaceTpSpecs :
         pe = [PeIdle EXCEPT !.stage = "sl", !.F = f, !.sl = b,
                             !.tp_specs = t, !.remaining_qty = f]

PeStageAfter(i) == IF i > Len(pe.tp_specs) THEN "ret" ELSE "tp"

\* bracket_orders.py:221-242: the stop loss, for the whole filled quantity;
\* the request is accepted, rejected, or raises
PeSL ==
    /\ pe.stage = "sl"
    /\ IF ~pe.sl
         THEN pe' = [pe EXCEPT !.stage = PeStageAfter(1), !.i = 1]
         ELSE \E r \in {"ok", "rejected", "raise"} :
                pe' = IF r = "raise" THEN [pe EXCEPT !.stage = "raised"]
                      ELSE [pe EXCEPT !.stage = PeStageAfter(1), !.i = 1,
                                      !.sl_qty = IF r = "ok" THEN pe.F ELSE 0]
    /\ UNCHANGED <<bvars, ttl, rq, ws, avars>>

\* bracket_orders.py:243-280, one iteration of the loop over tp_specs
PeTP ==
    /\ pe.stage = "tp"
    /\ LET i == pe.i
           tp_qty == TpQty(pe.tp_specs[i], pe.remaining_qty)
       IN IF tp_qty <= 0
            THEN pe' = [pe EXCEPT !.stage = PeStageAfter(i + 1), !.i = i + 1,
                                  !.tp_qtys = Append(@, 0)]
            ELSE \E r \in {"ok", "rejected", "raise"} :
                   pe' = IF r = "raise" THEN [pe EXCEPT !.stage = "raised"]
                         ELSE [pe EXCEPT
                                 !.stage = PeStageAfter(i + 1), !.i = i + 1,
                                 !.tp_qtys =
                                     Append(@, IF r = "ok" THEN tp_qty ELSE 0),
                                 !.remaining_qty =
                                     IF r = "ok" THEN @ - tp_qty ELSE @]
    /\ UNCHANGED <<bvars, ttl, rq, ws, avars>>

PeNext == PeSL \/ PeTP

PlaceSpec == PeInit /\ [][PeNext]_vars

\* ================================================= FuturesClient.request

HttpOk == 200
TimeErrorCode == -1021
\* Some other error code of the exchange (order would immediately trigger).
OtherErrorCode == -2021
\* requests.exceptions.Timeout, as request reports it
TimeoutCode == -1001
UnsupportedCode == -1

\* A retry test that takes every failure for a clock error.
IsTimeError_AnyError(code) == code # HttpOk

\* futures_config.py:255-256
IsTimeError(code) == code = TimeErrorCode

\* d[key] = value on a Python dict: a key already there keeps its place.
DictKeysSet(keys, key) ==
    IF key \in Range(keys) THEN keys ELSE Append(keys, key)

\* futures_config.py:174-181, with the timestamp get_timestamp returned
SignRequest(params, ts) ==
    LET signed_keys ==
            DictKeysSet(DictKeysSet(params.keys, "timestamp"), "recvWindow")
    IN [keys |-> DictKeysSet(signed_keys, "signature"),
        timestamp |-> ts,
        signature |-> [over |-> signed_keys, timestamp |-> ts]]

\* A retry that signs the old parameters again as they are.
Strip_Nothing(params) == params

\* futures_config.py:262-263
Strip(params) ==
    [keys |-> SelectSeq(params.keys,
                 LAMBDA key : key \notin {"timestamp", "signature", "recvWindow"}),
     timestamp |-> -1,
     signature |-> NoSignature]

\* futures_config.py:103
Timestamp(now, offset) == now + offset

\* The offset after sync_server_time (futures_config.py:72-90): what the
\* exchange's clock gives, or the old one when the sync fails.
SyncOutcomes == 0..MaxOffset

RqInit ==
    /\ BracketIdle
    /\ lv = LvIdle
    /\ ttl = TtlIdle
    /\ pe = PeIdle
    /\ ws = WsNew
    /\ AnalyticsIdle
    /\ \E s \in BOOLEAN, g \in BOOLEAN, r \in BOOLEAN, o \in 0..MaxOffset :
         rq = [RqIdle EXCEPT !.pc = "sign", !.supported = s, !.signed = g,
                             !.retry_on_time_error = r, !.offset = o]

\* futures_config.py:232-237; get_timestamp syncs first when the last sync
\* is older than five minutes
RqSign ==
    /\ rq.pc = "sign"
    /\ IF rq.signed
         THEN \E stale \in BOOLEAN :
              \E o \in (IF stale THEN SyncOutcomes ELSE {rq.offset}) :
                rq' = [rq EXCEPT !.offset = o, !.pc = "send",
                          !.params = SignRequest(@, Timestamp(rq.now, o))]
         ELSE rq' = [rq EXCEPT !.pc = "send"]
    /\ UNCHANGED <<bvars, ttl, pe, ws, avars>>

\* futures_config.py:239-251, 278-283: the first send and its response, or
\* the exception it raises
RqSend ==
    /\ rq.pc = "send"
    /\ IF ~rq.supported
         THEN rq' = [rq EXCEPT !.pc = "done", !.ret = UnsupportedCode]
         ELSE \E c \in {HttpOk, TimeErrorCode, OtherErrorCode, TimeoutCode} :
                rq' = [rq EXCEPT
                         !.sends = @ + 1,
                         !.sent = Append(@, rq.params),
                         !.code = c,
                         !.ret = IF c = TimeoutCode THEN c ELSE @,
                         !.pc = IF c = TimeoutCode THEN "done" ELSE "handle"]
    /\ UNCHANGED <<bvars, ttl, pe, ws, avars>>

\* futures_config.py:253-257, 276
RqHandle ==
    /\ rq.pc = "handle"
    /\ rq' = IF rq.code # HttpOk /\ rq.retry_on_time_error
                 /\ IsTimeError(rq.code)
               THEN [rq EXCEPT !.pc = "resync"]
               ELSE [rq EXCEPT !.pc = "done", !.ret = rq.code]
    /\ UNCHANGED <<bvars, ttl, pe, ws, avars>>

\* futures_config.py:258
RqResync ==
    /\ rq.pc = "resync"
    /\ \E o \in SyncOutcomes :
         rq' = [rq EXCEPT !.offset = o, !.resynced = TRUE, !.pc = "resign"]
    /\ UNCHANGED <<bvars, ttl, pe, ws, avars>>

\* futures_config.py:260-263; get_timestamp may sync once more when the
\* sync before it failed
RqResign ==
    /\ rq.pc = "resign"
    /\ IF rq.signed
         THEN \E stale \in BOOLEAN :
              \E o \in (IF stale THEN SyncOutcomes ELSE {rq.offset}) :
                rq' = [rq EXCEPT !.offset = o, !.pc = "resend",
                          !.params =
                              SignRequest(Strip(@), Timestamp(rq.now, o))]
         ELSE rq' = [rq EXCEPT !.pc = "resend"]
    /\ UNCHANGED <<bvars, ttl, pe, ws, avars>>

\* futures_config.py:265-274, 278-283: the second send; whatever comes back
\* is returned
RqResend ==
    /\ rq.pc = "resend"
    /\ \E c \in {HttpOk, TimeErrorCode, OtherErrorCode, TimeoutCode} :
         rq' = [rq EXCEPT !.sends = @ + 1,
                          !.sent = Append(@, rq.params),
                          !.code2 = c, !.ret = c, !.pc = "done"]
    /\ UNCHANGED <<bvars, ttl, pe, ws, avars>>

\* The local clock moves on while the call runs.
RqTick ==
    /\ rq.pc \notin {"idle", "done"}
    /\ rq.now < MaxClock
    /\ rq' = [rq EXCEPT !.now = @ + 1]
    /\ UNCHANGED <<bvars, ttl, pe, ws, avars>>

RqNext ==
    \/ RqSign \/ RqSend \/ RqHandle \/ RqResync \/ RqResign \/ RqResend
    \/ RqTick

RequestSpec == RqInit /\ [][RqNext]_vars

\* ======================================================= BinanceWSClient

Symbols == 1..MaxSymbols

WsInit ==
    /\ BracketIdle
    /\ lv = LvIdle
    /\ ttl = TtlIdle
    /\ pe = PeIdle
    /\ rq = RqIdle
    /\ AnalyticsIdle
    /\ ws = WsNew

\* The event loop thread is alive.
WsThreadAlive == ws.pc \notin {"idle", "ended", "stopped"}

\* The coroutine may take a step: always while not stopped, and once more
\* after stop() has scheduled loop.stop, when its continuation sits in the
\* same batch of ready callbacks.
WsMayStep == ~ws.stopping \/ ws.grace

\* ws_trade_buffer.py:204-224
WsSubscribe ==
    /\ ~ws.stopping
    /\ \E symbol \in Symbols \ ws.subscribed :
         ws' = IF ~ws.running
                 THEN [ws EXCEPT !.subscribed = @ \cup {symbol},
                                 !.running = TRUE,
                                 !.pc = IF WsThreadAlive THEN @ ELSE "top"]
               ELSE IF ws.connected /\ ws.ws_set /\ ws.open
                 THEN [ws EXCEPT !.subscribed = @ \cup {symbol},
                                 !.requested = @ \cup {symbol}]
               ELSE [ws EXCEPT !.subscribed = @ \cup {symbol}]
    /\ UNCHANGED <<bvars, ttl, pe, rq, avars>>

\* ws_trade_buffer.py:226-234
WsUnsubscribe ==
    /\ ~ws.stopping
    /\ \E symbol \in ws.subscribed :
         ws' = IF ws.connected /\ ws.ws_set /\ ws.open
                 THEN [ws EXCEPT !.subscribed = @ \ {symbol},
                                 !.requested = @ \ {symbol}]
               ELSE [ws EXCEPT !.subscribed = @ \ {symbol}]
    /\ UNCHANGED <<bvars, ttl, pe, rq, avars>>

\* ws_trade_buffer.py:258-268: the loop condition, the stream list, the URL
WsLoopTop ==
    /\ ws.pc = "top"
    /\ WsMayStep
    /\ ws' = IF ~ws.running
               THEN [ws EXCEPT !.pc = "ended", !.grace = FALSE]
             ELSE IF ws.subscribed = {}
               THEN [ws EXCEPT !.pc = "nap", !.grace = FALSE]
             ELSE [ws EXCEPT !.pc = "connecting", !.url = ws.subscribed,
                             !.grace = FALSE]
    /\ UNCHANGED <<bvars, ttl, pe, rq, avars>>

\* ws_trade_buffer.py:262-263
WsNapOver ==
    /\ ws.pc = "nap"
    /\ WsMayStep
    /\ ws' = [ws EXCEPT !.pc = "top", !.grace = FALSE]
    /\ UNCHANGED <<bvars, ttl, pe, rq, avars>>

\* ws_trade_buffer.py:286-302: the handler of every exception but
\* CancelledError
WsOnException(s) ==
    IF ~s.running
      THEN [s EXCEPT !.connected = FALSE, !.ws_set = FALSE, !.open = FALSE,
                     !.requested = {}, !.pc = "ended", !.grace = FALSE]
      ELSE [s EXCEPT !.connected = FALSE, !.ws_set = FALSE, !.open = FALSE,
                     !.requested = {}, !.pc = "backoff",
                     !.reconnect_attempt = @ + 1, !.grace = FALSE]

\* ws_trade_buffer.py:270-275: the handshake succeeds
WsConnected ==
    /\ ws.pc = "connecting"
    /\ WsMayStep
    /\ ws' = [ws EXCEPT !.pc = "open", !.open = TRUE, !.ws_set = TRUE,
                        !.connected = TRUE, !.reconnect_attempt = 0,
                        !.requested = ws.url, !.grace = FALSE]
    /\ UNCHANGED <<bvars, ttl, pe, rq, avars>>

\* ws_trade_buffer.py:270, 286-302: the handshake fails
WsConnectFails ==
    /\ ws.pc = "connecting"
    /\ WsMayStep
    /\ ws.reconnect_attempt < MaxReconnects
    /\ ws' = WsOnException(ws)
    /\ UNCHANGED <<bvars, ttl, pe, rq, avars>>

\* ws_trade_buffer.py:277-284: a message; whatever its handling raises is
\* logged and dropped
WsMessage ==
    /\ ws.pc = "open"
    /\ WsMayStep
    /\ ws.handled < MaxMessages
    /\ ws' = [ws EXCEPT !.handled = @ + 1, !.grace = FALSE]
    /\ UNCHANGED <<bvars, ttl, pe, rq, avars>>

\* ws_trade_buffer.py:277, 286-302: the connection is lost, or closed with
\* an error code; the iteration over the messages raises
WsLost ==
    /\ ws.pc = "open"
    /\ WsMayStep
    /\ ws.reconnect_attempt < MaxReconnects
    /\ ws' = WsOnException(ws)
    /\ UNCHANGED <<bvars, ttl, pe, rq, avars>>

\* ws_trade_buffer.py:270-277, 258: the peer closes the connection normally;
\* the iteration over the messages ends, the `async with` block is left
\* without an exception and the loop goes round
WsClosedNormally ==
    /\ ws.pc = "open"
    /\ WsMayStep
    /\ ws' = [ws EXCEPT !.pc = "top", !.open = FALSE, !.requested = {},
                        !.grace = FALSE]
    /\ UNCHANGED <<bvars, ttl, pe, rq, avars>>

\* ws_trade_buffer.py:296-302
WsBackoffOver ==
    /\ ws.pc = "backoff"
    /\ WsMayStep
    /\ ws' = [ws EXCEPT !.pc = "top", !.grace = FALSE]
    /\ UNCHANGED <<bvars, ttl, pe, rq, avars>>

\* ws_trade_buffer.py:345-351: stop() up to the scheduling of loop.stop
WsStop ==
    /\ ~ws.stopping
    /\ ws' = [ws EXCEPT !.running = FALSE, !.connected = FALSE,
                        !.stopping = WsThreadAlive, !.grace = WsThreadAlive]
    /\ ws' # ws
    /\ UNCHANGED <<bvars, ttl, pe, rq, avars>>

\* ws_trade_buffer.py:350-354, 245-250: the event loop stops, the thread
\* ends and with it whatever connection it held; stop() returns
WsHalt ==
    /\ ws.stopping
    /\ ws' = [ws EXCEPT !.pc = IF WsThreadAlive THEN "stopped" ELSE @,
                        !.open = FALSE, !.requested = {},
                        !.stopping = FALSE, !.grace = FALSE]
    /\ UNCHANGED <<bvars, ttl, pe, rq, avars>>

WsNext ==
    \/ WsSubscribe \/ WsUnsubscribe
    \/ WsLoopTop \/ WsNapOver \/ WsConnected \/ WsConnectFails
    \/ WsMessage \/ WsLost \/ WsClosedNormally \/ WsBackoffOver
    \/ WsStop \/ WsHalt

StreamSpec == WsInit /\ [][WsNext]_vars

\* ====================================================== either orchestrator

\* One bracket job, or one TTL call, from its start.
WorkersInit == Init \/ TtlInit

WorkersNext ==
    \/ ttl = TtlIdle /\ Next
    \/ ttl # TtlIdle /\ TtlNext

WorkersSpec == WorkersInit /\ [][WorkersNext]_vars

\* =============================================================== claims

BracketTerminal ==
    {"entry_failed", "cancelled", "monitoring_timeout", "completed", "error"}

\* The exit order ids the job holds as placed.
PlacedExitIds == Range(AllExitIds(job.sl_order_id, job.tp_order_ids))

\* A step of cancel_bracket_job that starts a call on the stored job.
CancelCallStarts == k.pc = "idle" /\ k' # k /\ registered

\* C1 (as stated): a job is `completed` only after its monitor has observed
\* one of the job's placed exit orders FILLED in Phase 2.
C1_CompletedOnlyAfterExitFilled ==
    job.status = "completed" =>
        /\ job.triggered_exit \in PlacedExitIds
        /\ ex.exit[job.triggered_exit] = "FILLED"

\* C1 (amended): a job is `completed` only after its monitor has observed a
\* placed exit order FILLED in Phase 2, or has entered Phase 2 with no
\* placed exit order at all.
C1_CompletedAfterExitFilledOrNoExits ==
    job.status = "completed" =>
        \/ /\ job.triggered_exit \in PlacedExitIds
           /\ ex.exit[job.triggered_exit] = "FILLED"
        \/ /\ PlacedExitIds = {}
           /\ job.triggered_exit = 0

C1_Witness ==
    /\ job.status = "completed"
    /\ job.triggered_exit \in PlacedExitIds
    /\ w.pc = "done"

\* C2: the status changes only from `active` to a terminal value, and a
\* terminal value never changes again.
C2_StatusOnlyActiveToTerminal ==
    [][job'.status # job.status =>
          \/ job.status = "none" /\ job'.status = "active"
          \/ job.status = "active" /\ job'.status \in BracketTerminal]_vars

\* C3: once cancel_bracket_job has set the flag before the worker began exit
\* placement, the worker places no exit order and writes no field of the job.
C3_FlagBeforePlacementStopsWorker ==
    hist.flagBeforePlacement => (hist.posted = {} /\ ~hist.wWrote)

\* C4: a cancel_bracket_job call on a job in any terminal status returns
\* cannot_cancel, sends no cancel request and leaves the job as it is.
C4_CancelOnTerminalRefused ==
    [][(CancelCallStarts /\ job.status \in BracketTerminal) =>
          (k'.ret = "cannot_cancel" /\ k'.pc = "idle"
           /\ job' = job /\ ex' = ex)]_vars

\* C5 (as stated): after the handoff to the monitor, only the monitor writes
\* the job's status.
C5_OnlyWorkerWritesStatus ==
    [][(w.pc # "none" /\ job'.status # job.status) => (w' # w /\ k' = k)]_vars

\* C5 (amended): after the handoff, the status is written by the monitor
\* (entry_failed, completed, monitoring_timeout, error) and by
\* cancel_bracket_job, which writes only `cancelled`; the monitor never
\* writes `cancelled` and nothing else writes the status.
C5_WorkerOrCancelWritesStatus ==
    [][(w.pc # "none" /\ job'.status # job.status) =>
          \/ /\ job'.status = "cancelled"
             /\ k.pc = "k_finish" /\ k' # k /\ w' = w /\ cpc' = cpc
          \/ /\ job'.status \in BracketTerminal \ {"cancelled"}
             /\ w' # w /\ k' = k /\ cpc' = cpc]_vars

C5_Witness ==
    /\ w.pc \notin {"none", "done"}
    /\ job.status = "cancelled"

\* C6: with wait_for_entry and an entry not FILLED at submission, no SL or
\* TP order is sent before the monitor has seen the entry FILLED, or
\* PARTIALLY_FILLED with executedQty > 0.
C6_NoExitBeforeEntryFillSeen ==
    (/\ cfg.wait_for_entry
     /\ hist.entryAtSubmit \in {"NEW", "PARTIALLY_FILLED"}
     /\ hist.posted # {}) =>
        \/ hist.entryObs.status = "FILLED"
        \/ /\ hist.entryObs.status = "PARTIALLY_FILLED"
           /\ hist.entryObs.executed_qty > 0

C6_Witness ==
    /\ cfg.wait_for_entry
    /\ hist.entryAtSubmit = "NEW"
    /\ hist.entryObs.status = "PARTIALLY_FILLED"
    /\ hist.posted # {}

C8_TimeoutHasLiveExit ==
    job.status = "monitoring_timeout" =>
        /\ PlacedExitIds # {}
        /\ \E id \in PlacedExitIds : Open(ex.exit[id])

\* C9: a TTL job's status moves only along scheduled -> waiting ->
\* executing -> (completed | error), or from scheduled or waiting to
\* cancelled; nothing leaves cancelled, completed or error.
C9_TtlStatusTransitions ==
    [][ttl'.job.status # ttl.job.status =>
          <<ttl.job.status, ttl'.job.status>> \in
              {<<"none", "scheduled">>, <<"scheduled", "waiting">>,
               <<"waiting", "executing">>, <<"executing", "completed">>,
               <<"executing", "error">>, <<"scheduled", "cancelled">>,
               <<"waiting", "cancelled">>}]_vars

\* C10: once cancel_ttl_job has returned success, the job's worker sends no
\* cancel request for the order.
C10_NoDeleteAfterTtlCancel ==
    ttl.kSucceeded => (ttl.deletes = 0 /\ ttl.wpc # "cancel")

C10_Witness ==
    /\ ttl.kSucceeded
    /\ ttl.wpc = "done"
    /\ TtlActive(ttl.order)

\* A blocking cancel_on_ttl call that has waited, fetched the status again
\* and returned.
TtlBlockingRunOver ==
    ttl.blocking /\ ttl.cpc = "done" /\ ttl.order_status # "none"

\* A worker that has fetched the status at execution time and ended.
TtlWorkerRunOver == ttl.wpc = "done" /\ ttl.order_status # "none"

\* C11 (as stated): a TTL run reports action `cancelled` if and only if the
\* status fetched after the wait was NEW or PARTIALLY_FILLED.
C11_CancelledIffActiveAtExecution ==
    /\ TtlBlockingRunOver =>
         (ttl.cret = "cancelled" <=>
              ttl.order_status \in {"NEW", "PARTIALLY_FILLED"})
    /\ TtlWorkerRunOver =>
         (ttl.job.action = "cancelled" <=>
              ttl.order_status \in {"NEW", "PARTIALLY_FILLED"})

\* C11 (amended): a TTL run reports action `cancelled` only if the status
\* fetched after the wait was NEW or PARTIALLY_FILLED and the order is then
\* CANCELED; a run that fetched NEW or PARTIALLY_FILLED reports `cancelled`
\* or an error (cancel_failed, job status error), never no_action; a run
\* that fetched any other status reports no_action.
C11_CancelledIffActiveAndCancelSucceeded ==
    /\ TtlBlockingRunOver =>
         /\ ttl.cret = "cancelled" =>
              /\ ttl.order_status \in {"NEW", "PARTIALLY_FILLED"}
              /\ ttl.order = "CANCELED"
         /\ ttl.order_status \in {"NEW", "PARTIALLY_FILLED"} =>
              ttl.cret \in {"cancelled", "cancel_failed"}
         /\ ttl.order_status \notin {"NEW", "PARTIALLY_FILLED"} =>
              ttl.cret = "no_action"
    /\ TtlWorkerRunOver =>
         /\ ttl.job.action = "cancelled" =>
              /\ ttl.order_status \in {"NEW", "PARTIALLY_FILLED"}
              /\ ttl.order = "CANCELED"
              /\ ttl.deletes = 1
              /\ ttl.job.status = "completed"
         /\ ttl.order_status \in {"NEW", "PARTIALLY_FILLED"} =>
              \/ ttl.job.action = "cancelled"
              \/ ttl.job.status = "error" /\ ttl.job.action = "none"
         /\ ttl.order_status \notin {"NEW", "PARTIALLY_FILLED"} =>
              ttl.job.action = "no_action" /\ ttl.deletes = 0

C11_Witness ==
    /\ TtlWorkerRunOver
    /\ ttl.order_status = "PARTIALLY_FILLED"
    /\ ttl.job.action = "cancelled"

\* A step that is a cancel_ttl_job call: neither the caller of cancel_on_ttl
\* nor the worker nor the exchange moves.
TtlCancelCall ==
    /\ ttl' # ttl
    /\ ttl'.cpc = ttl.cpc /\ ttl'.wpc = ttl.wpc /\ ttl'.order = ttl.order

\* C12: cancel_ttl_job on a registered job succeeds exactly when the status
\* is scheduled or waiting, and then sets the cancelled flag and the status
\* `cancelled`; in any other status it returns cannot_cancel and leaves the
\* job as it is.
C12_CancelTtlJobOnlyBeforeExecution ==
    [][(TtlCancelCall /\ ttl.reg) =>
          IF ttl.job.status \in {"scheduled", "waiting"}
            THEN /\ ttl'.kret = "success"
                 /\ ttl'.job = [ttl.job EXCEPT !.cancelled = TRUE,
                                               !.status = "cancelled"]
            ELSE /\ ttl'.kret = "cannot_cancel"
                 /\ ttl'.job = ttl.job]_vars

C12_Witness ==
    /\ ttl.kSucceeded
    /\ ttl.kret = "cannot_cancel"
    /\ ttl.job.status = "cancelled"

\* A step of _place_exit_orders, or of the update of the job with its
\* result, in which a rejected placement is on record.
RejectionStep ==
    /\ pl.stage # "none"
    /\ pl' # pl
    /\ \/ pl.sl_error \/ pl.tp_errors # <<>>
       \/ pl'.sl_error \/ pl'.tp_errors # <<>>

\* The monitor is about to be started, or is in Phase 2 over the ids `ids`.
MonitoredByWorker(ids) ==
    \/ cpc \in {"store", "spawn"}
    \/ w.pc = "start"
    \/ /\ w.pc \in {"p2_init", "p2_check", "p2_poll", "p2_sleep",
                    "p2_cancel", "p2_complete", "p2_timeout"}
       /\ Range(AllExitIds(w.sl_order_id, w.tp_order_ids)) = ids

RECURSIVE SumTo(_, _)
\* The sum of the first n elements of s.
SumTo(s, n) == IF n = 0 THEN 0 ELSE s[n] + SumTo(s, n - 1)

\* C14: in an exit placement with filled quantity F, a placed SL order has
\* quantity F, a placed TP order has quantity min(spec quantity, F minus the
\* quantities of the TP orders placed before it), and the quantities of the
\* placed TP orders sum to at most F.
C14_ExitQuantities ==
    /\ pe.sl_qty \in {0, pe.F}
    /\ \A i \in 1..Len(pe.tp_qtys) :
         pe.tp_qtys[i] \in
             {0, Min(pe.tp_specs[i], pe.F - SumTo(pe.tp_qtys, i - 1))}
    /\ SumTo(pe.tp_qtys, Len(pe.tp_qtys)) <= pe.F

C14_Witness ==
    /\ pe.stage = "ret"
    /\ pe.sl_qty = pe.F
    /\ Len(pe.tp_qtys) = 3
    /\ pe.tp_qtys[1] > 0
    /\ pe.tp_qtys[2] > 0 /\ pe.tp_qtys[2] < pe.tp_specs[2]
    /\ pe.tp_qtys[3] = 0

\* After the step, the order is in exactly one of the two lists of the
\* running cancel_bracket_job call, and what was listed before still is.
FiledOnce(order_id) ==
    /\ (order_id \in Range(k'.cancelled_orders))
           # (order_id \in Range(k'.failed_cancellations))
    /\ Range(k.cancelled_orders) \subseteq Range(k'.cancelled_orders)
    /\ Range(k.failed_cancellations) \subseteq Range(k'.failed_cancellations)
    /\ Len(k'.cancelled_orders) + Len(k'.failed_cancellations)
           = Len(k.cancelled_orders) + Len(k.failed_cancellations) + 1

\* C15: a cancel_bracket_job call that has passed its terminal check goes
\* through the entry (if the job does not hold it as filled), the SL and
\* each TP of the job, files each of them as cancelled or as failed whatever
\* the cancel request did, then sets status `cancelled` and returns success.
C15_CancelFilesEveryTarget ==
    [][(k.pc # "idle" /\ k' # k) =>
          CASE k.pc = "k_entry" ->
                 /\ k'.pc = "k_sl"
                 /\ IF job.entry_filled
                      THEN /\ k'.cancelled_orders = k.cancelled_orders
                           /\ k'.failed_cancellations = k.failed_cancellations
                      ELSE FiledOnce(EntryId)
            [] k.pc = "k_sl" ->
                 /\ k'.pc = IF job.tp_order_ids = <<>> THEN "k_finish"
                            ELSE "k_tp"
                 /\ IF job.sl_order_id = 0
                      THEN /\ k'.cancelled_orders = k.cancelled_orders
                           /\ k'.failed_cancellations = k.failed_cancellations
                      ELSE FiledOnce(job.sl_order_id)
            [] k.pc = "k_tp" ->
                 /\ FiledOnce(k.tps[k.i])
                 /\ k'.pc = IF k.i = Len(k.tps) THEN "k_finish" ELSE "k_tp"
            [] k.pc = "k_finish" ->
                 /\ k'.pc = "idle"
                 /\ k'.ret = "success"
                 /\ job'.status = "cancelled"]_vars

C15_Witness ==
    /\ k.pc = "k_finish"
    /\ k.cancelled_orders # <<>>
    /\ k.failed_cancellations # <<>>
    /\ EntryId \in Range(k.failed_cancellations)

\* C16: an exception raised in a bracket monitor or in a TTL worker is taken
\* by the worker's own except clause, which sets the job's status to `error`
\* and records the message, and the worker ends there.
C16_WorkerExceptionSetsError ==
    [][/\ (w.pc = "error" /\ w' # w) =>
             (job'.status = "error" /\ job'.error /\ w'.pc = "done")
       /\ (ttl.wpc = "raised" /\ ttl'.wpc # ttl.wpc) =>
             (ttl'.job.status = "error" /\ ttl'.job.error
              /\ ttl'.wpc = "done")]_vars

C16_Witness ==
    \/ /\ w.pc = "done" /\ job.status = "error" /\ job.error
       /\ job.entry_filled /\ hist.posted # {}
    \/ /\ ttl.wpc = "done" /\ ttl.job.status = "error" /\ ttl.job.error
       /\ ttl.deletes = 0 /\ ttl.order_status = "NEW"

\* C17: one call of request sends the HTTP request at most twice; the
\* second send happens only after a first response with code -1021 while
\* retry_on_time_error is set, after a clock resync, and its result is what
\* the call returns, a second -1021 included.
C17_AtMostOneTimeSkewRetry ==
    /\ rq.sends <= 2
    /\ Len(rq.sent) = rq.sends
    /\ (rq.sends = 2 \/ rq.pc \in {"resync", "resign", "resend"}) =>
          /\ rq.code = -1021
          /\ rq.retry_on_time_error
    /\ (rq.sends = 2 \/ rq.pc \in {"resign", "resend"}) => rq.resynced
    /\ (rq.sends = 2) => (rq.pc = "done" /\ rq.ret = rq.code2)

C17_Witness ==
    /\ rq.pc = "done"
    /\ rq.sends = 2
    /\ rq.ret = -1021

\* How many times `key` occurs among the keys of a parameter dict.
KeyCount(params, key) ==
    Cardinality({i \in 1..Len(params.keys) : params.keys[i] = key})

\* The parameters carry one timestamp and one signature, and the signature
\* was computed over exactly the parameters in front of it, this timestamp
\* included.
WellSigned(params) ==
    /\ KeyCount(params, "timestamp") = 1
    /\ KeyCount(params, "signature") = 1
    /\ LET at == CHOOSE i \in 1..Len(params.keys) :
                     params.keys[i] = "signature"
       IN /\ params.signature.over = SubSeq(params.keys, 1, at - 1)
          /\ "timestamp" \in Range(params.signature.over)
    /\ params.signature.timestamp = params.timestamp

\* C18: every signed request that is sent, the one re-sent after -1021
\* included, carries exactly one timestamp and exactly one signature computed
\* over the parameters that precede it, and the timestamp is the local time
\* plus the clock offset in force when the request is signed.
C18_SignedRequestsWellFormed ==
    /\ [](rq.signed => \A i \in 1..Len(rq.sent) : WellSigned(rq.sent[i]))
    /\ [][rq'.params # rq.params =>
             rq'.params.timestamp = rq.now + rq'.offset]_vars

C18_Witness ==
    /\ rq.signed
    /\ rq.sends = 2
    /\ rq.sent[2].timestamp # rq.sent[1].timestamp
    /\ rq.sent[2].timestamp = rq.now + rq.offset

\* The pre-check of cancel_on_ttl has answered no_action: the call is over
\* and no status was fetched after a wait.
TtlPreCheckNoAction ==
    ttl.cpc = "done" /\ ttl.cret = "no_action" /\ ttl.order_status = "none"

\* C19: when the pre-check of cancel_on_ttl finds the order in any status
\* but NEW or PARTIALLY_FILLED, the call ends in that step (with no_action,
\* or with order_not_found when the request failed): it does not wait,
\* registers no job, starts no worker and sends no cancel request, then or
\* later.
C19_TerminalPreCheckDoesNothing ==
    /\ [][(/\ ttl.cpc = "verify"
           /\ ttl'.cpc # "verify"
           /\ ttl.order \notin {"NEW", "PARTIALLY_FILLED"}) =>
             /\ ttl'.cpc = "done"
             /\ ttl'.cret \in {"no_action", "order_not_found"}
             /\ ttl.order = "NONE" => ttl'.cret = "order_not_found"
             /\ ttl' = [ttl EXCEPT !.cpc = "done", !.cret = ttl'.cret]]_vars
    /\ [](TtlPreCheckNoAction =>
             /\ ~ttl.reg
             /\ ttl.job.status = "none"
             /\ ttl.wpc = "none"
             /\ ttl.deletes = 0
             /\ ttl.order \notin {"NEW", "PARTIALLY_FILLED", "NONE"})

C19_Witness ==
    /\ TtlPreCheckNoAction
    /\ ttl.order = "FILLED"
    /\ ttl.kret = "not_found"

\* C20: the ready event is set only while a connection is open, and it is
\* clear whenever the client starts a connection attempt.
C20_ReadyOnlyWhileConnectionOpen ==
    /\ ws.connected => ws.open
    /\ ws.pc = "connecting" => ~ws.connected

\* ========================================================= TradeRingBuffer

rbOthers == <<bvars, ttl, pe, rq, ws, mc, rt, an, lk, ov, lv>>

RbInit ==
    /\ BracketIdle
    /\ lv = LvIdle
    /\ ov = OvIdle
    /\ lk = LkIdle
    /\ ttl = TtlIdle
    /\ pe = PeIdle
    /\ rq = RqIdle
    /\ ws = WsNew
    /\ mc = McNew
    /\ rt = RtIdle
    /\ an = AnNew
    /\ rb = RbNew

DequeAppend_Unbounded(q, x, maxlen) == Append(q, x)

\* deque(maxlen=max_size).append (ws_trade_buffer.py:72, 81, 91)
DequeAppend(q, x, maxlen) ==
    IF Len(q) >= maxlen THEN Append(Tail(q), x) ELSE Append(q, x)

RECURSIVE AppendAll(_, _, _)
\* ws_trade_buffer.py:90-91
AppendAll(q, xs, maxlen) ==
    IF xs = <<>> THEN q
    ELSE AppendAll(DequeAppend(q, Head(xs), maxlen), Tail(xs), maxlen)

RECURSIVE DropOld(_, _)
\* ws_trade_buffer.py:101-102
DropOld(q, cutoff) ==
    IF q # <<>> /\ Head(q).T < cutoff THEN DropOld(Tail(q), cutoff) ELSE q

\* The periodic cleanup at the end of add_trade and add_trades_batch
\* (ws_trade_buffer.py:84-85, 93-94) with _cleanup_old_trades (96-104).
AfterAppend(b, trades) ==
    IF b.now - b.last_cleanup > CleanupInterval
    THEN [b EXCEPT !.trades = DropOld(trades, b.now - RingMaxAge),
                   !.last_cleanup = b.now]
    ELSE [b EXCEPT !.trades = trades]

\* ws_trade_buffer.py:116-118
GetTrades(q, cutoff) == SelectSeq(q, LAMBDA t : t.T >= cutoff)

\* The trades the stream may deliver next: numbered on from the last one,
\* with timestamps that do not go back and are not in the future.
StreamBatches(m) ==
    {xs \in [1..m -> [a : (rb.n + 1)..(rb.n + m), T : rb.last_T..rb.now]] :
        /\ \A i \in 1..m : xs[i].a = rb.n + i
        /\ \A i \in 1..(m - 1) : xs[i].T <= xs[i + 1].T}

\* time.time() moves on
RbTick ==
    /\ rb.now < MaxNow
    /\ rb' = [rb EXCEPT !.now = rb.now + 1]
    /\ UNCHANGED rbOthers

\* _handle_message -> _on_trade -> add_trade (ws_trade_buffer.py:305-317,
\* 410-413, 78-85)
RbAddTrade ==
    /\ rb.n < MaxTrades
    /\ \E xs \in StreamBatches(1) :
         rb' = [AfterAppend(rb, DequeAppend(rb.trades, xs[1], RingCap))
                  EXCEPT !.n = rb.n + 1, !.last_T = xs[1].T,
                         !.appended = Append(rb.appended, xs[1])]
    /\ UNCHANGED rbOthers

\* add_trades_batch (ws_trade_buffer.py:87-94)
RbAddTradesBatch ==
    /\ \E m \in 2..MaxBatch :
         /\ rb.n + m <= MaxTrades
         /\ \E xs \in StreamBatches(m) :
              rb' = [AfterAppend(rb, AppendAll(rb.trades, xs, RingCap))
                       EXCEPT !.n = rb.n + m, !.last_T = xs[m].T,
                              !.appended = rb.appended \o xs]
    /\ UNCHANGED rbOthers

\* get_trades (ws_trade_buffer.py:106-118)
RbGetTrades ==
    /\ \E window \in 0..MaxWindow :
         rb' = [rb EXCEPT !.asked = TRUE,
                          !.got = GetTrades(rb.trades, rb.now - window)]
    /\ rb' # rb
    /\ UNCHANGED rbOthers

\* clear (ws_trade_buffer.py:142-145)
RbClear ==
    /\ rb.trades # <<>>
    /\ rb' = [rb EXCEPT !.trades = <<>>]
    /\ UNCHANGED rbOthers

RbNext ==
    \/ RbTick
    \/ RbAddTrade
    \/ RbAddTradesBatch
    \/ RbGetTrades
    \/ RbClear

RingSpec == RbInit /\ [][RbNext]_vars

\* q is what is left of the end of h.
IsSuffix(q, h) ==
    /\ Len(q) <= Len(h)
    /\ \A i \in 1..Len(q) : q[i] = h[Len(h) - Len(q) + i]

\* One trade was appended and no cleanup was due.
RbPlainAppend ==
    /\ Len(rb'.appended) = Len(rb.appended) + 1
    /\ rb'.last_cleanup = rb.last_cleanup

\* C21: the ring buffer never holds more than its cap and always holds the
\* most recently appended trades in insertion order; an append to a full
\* buffer discards exactly the oldest entry.
C21_RingBufferKeepsNewest ==
    /\ [](Len(rb.trades) <= RingCap /\ IsSuffix(rb.trades, rb.appended))
    /\ [][RbPlainAppend /\ Len(rb.trades) = RingCap =>
            rb'.trades = Append(Tail(rb.trades), rb'.appended[Len(rb'.appended)])]_vars

\* A full buffer after more appends than the cap: the oldest was discarded.
C21_Witness ==
    /\ Len(rb.trades) = RingCap
    /\ Len(rb.appended) > RingCap
    /\ rb.trades[1] # rb.appended[1]

\* ===================================================== MarketDataCollector

mcOthers == <<bvars, ttl, pe, rq, ws, rb, rt, an, lk, ov, lv>>

McInit ==
    /\ BracketIdle
    /\ lv = LvIdle
    /\ ov = OvIdle
    /\ lk = LkIdle
    /\ ttl = TtlIdle
    /\ pe = PeIdle
    /\ rq = RqIdle
    /\ ws = WsNew
    /\ rb = RbNew
    /\ rt = RtIdle
    /\ an = AnNew
    /\ mc = McNew

\* The exchange's i-th aggregated trade as a TradeRecord
\* (market_data_collector.py:283-294, 356-367).
TradeRecord(i) == [a |-> i, T |-> mc.tape[i]]

\* GET /fapi/v1/aggTrades with a limit only: the most recent trades, oldest
\* first.
RecentPage(limit) ==
    LET n == Len(mc.tape)
        first == IF n > limit THEN n - limit + 1 ELSE 1
    IN  [i \in 1..(n - first + 1) |-> TradeRecord(first + i - 1)]

\* GET /fapi/v1/aggTrades with startTime, endTime and limit: the first
\* `limit` trades of the range, oldest first.
RangePage(start, end, limit) ==
    LET all == SelectSeq([i \in 1..Len(mc.tape) |-> TradeRecord(i)],
                         LAMBDA t : start <= t.T /\ t.T <= end)
    IN  IF Len(all) > limit THEN SubSeq(all, 1, limit) ELSE all

\* market_data_collector.py:144-148
AddTrades(q, trades) == AppendAll(q, trades, TradeBufferCap)

\* market_data_collector.py:156-161
ClearOldTrades(q, now) == DropOld(q, now - TradeBufferMaxAge)

\* MarketDataCache.get (market_data_collector.py:101-116) for the key of
\* fetch_recent_trades; its TTL of 0.5 s is shorter than one clock tick.
CacheHit(limit) == mc.cached[limit] >= 0 /\ ~(mc.now - mc.cached[limit] > 0)

\* time.time() moves on
McTick ==
    /\ mc.now < MaxFetchNow
    /\ mc' = [mc EXCEPT !.now = mc.now + 1]
    /\ UNCHANGED mcOthers

\* a trade happens on the exchange
McTrade ==
    /\ Len(mc.tape) < MaxTape
    /\ mc' = [mc EXCEPT !.tape = Append(mc.tape, mc.now)]
    /\ UNCHANGED mcOthers

\* fetch_recent_trades (market_data_collector.py:254-310)
McFetchRecentTrades ==
    /\ mc.hf.pc = "none"
    /\ \E limit \in 1..MaxLimit, use_cache \in BOOLEAN, success \in BOOLEAN :
         IF use_cache /\ CacheHit(limit) THEN
            mc' = mc
         ELSE IF ~success THEN
            mc' = [mc EXCEPT !.cached[limit] =
                       IF use_cache THEN -1 ELSE mc.cached[limit]]
         ELSE
            mc' = [mc EXCEPT
                     !.buf = ClearOldTrades(AddTrades(mc.buf, RecentPage(limit)),
                                            mc.now),
                     !.cached[limit] = mc.now]
    /\ mc' # mc
    /\ UNCHANGED mcOthers

\* fetch_historical_trades up to its loop (market_data_collector.py:312-334),
\* called with no end_time_ms as both of its callers do
\* (volume_profile_fallback_from_trades.py:456-464, and line 480 here).
McFetchHistoricalTrades ==
    /\ mc.hf.pc = "none"
    /\ \E start_time_ms \in 0..mc.now, limit \in 1..MaxLimit :
         mc' = [mc EXCEPT !.hf = [NoFetch EXCEPT !.pc = "loop",
                                     !.current_start = start_time_ms,
                                     !.end_time_ms = mc.now,
                                     !.limit = limit,
                                     !.start_time_ms = start_time_ms,
                                     !.held = Len(mc.tape)]]
    /\ UNCHANGED mcOthers

\* ensure_trade_history (market_data_collector.py:454-486)
McEnsureTradeHistory ==
    /\ mc.hf.pc = "none"
    /\ \E lookback \in 0..MaxLookback :
         LET required_start_ms == mc.now - lookback IN
         /\ ~(mc.buf # <<>> /\ mc.buf[1].T <= required_start_ms)
         /\ mc' = [mc EXCEPT !.hf = [NoFetch EXCEPT !.pc = "loop",
                                       !.current_start = required_start_ms,
                                       !.end_time_ms = mc.now,
                                       !.limit = MaxLimit,
                                       !.start_time_ms = required_start_ms,
                                       !.held = Len(mc.tape)]]
    /\ UNCHANGED mcOthers

\* market_data_collector.py:337-375: one page came back
McHistPage ==
    /\ mc.hf.pc = "loop"
    /\ mc.hf.current_start < mc.hf.end_time_ms
    /\ LET data == RangePage(mc.hf.current_start, mc.hf.end_time_ms,
                             mc.hf.limit)
           h == mc.hf
       IN  mc' = [mc EXCEPT !.hf =
                 IF data = <<>> THEN [h EXCEPT !.pc = "push"]
                 ELSE [h EXCEPT
                         !.all_trades = h.all_trades \o data,
                         !.fetched = h.fetched \o data,
                         !.pc = IF Len(data) < h.limit THEN "push" ELSE "loop",
                         !.current_start =
                             IF Len(data) < h.limit THEN h.current_start
                             ELSE data[Len(data)].T + 1]]
    /\ UNCHANGED mcOthers

\* market_data_collector.py:337, 348-349: the request of a page failed
McHistFails ==
    /\ mc.hf.pc = "loop"
    /\ mc.hf.current_start < mc.hf.end_time_ms
    /\ mc' = [mc EXCEPT !.hf.pc = "returned", !.hf.success = FALSE,
                        !.hf.ret = mc.hf.all_trades]
    /\ UNCHANGED mcOthers

\* market_data_collector.py:384-386: a page could not be converted
McHistRaises ==
    /\ mc.hf.pc = "loop"
    /\ mc.hf.current_start < mc.hf.end_time_ms
    /\ mc' = [mc EXCEPT !.hf.pc = "returned", !.hf.success = FALSE,
                        !.hf.ret = <<>>]
    /\ UNCHANGED mcOthers

\* market_data_collector.py:337: the range is used up
McHistLoopEnds ==
    /\ mc.hf.pc = "loop"
    /\ ~(mc.hf.current_start < mc.hf.end_time_ms)
    /\ mc' = [mc EXCEPT !.hf.pc = "push"]
    /\ UNCHANGED mcOthers

\* market_data_collector.py:377-382
McHistPush ==
    /\ mc.hf.pc = "push"
    /\ mc' = [mc EXCEPT
                !.buf = ClearOldTrades(AddTrades(mc.buf, mc.hf.all_trades),
                                       mc.now),
                !.hf.pushed = mc.hf.all_trades,
                !.hf.pc = "returned", !.hf.success = TRUE,
                !.hf.ret = mc.hf.all_trades]
    /\ UNCHANGED mcOthers

\* the caller has the result
McHistDone ==
    /\ mc.hf.pc = "returned"
    /\ mc' = [mc EXCEPT !.hf = NoFetch]
    /\ UNCHANGED mcOthers

\* get_buffered_trades (market_data_collector.py:436-452, 150-154)
McGetBufferedTrades ==
    /\ mc.hf.pc = "none"
    /\ \E lookback \in 0..MaxLookback :
         mc' = [mc EXCEPT !.asked = TRUE,
                          !.got = GetTrades(mc.buf, mc.now - lookback)]
    /\ mc' # mc
    /\ UNCHANGED mcOthers

McNext ==
    \/ McTick
    \/ McTrade
    \/ McFetchRecentTrades
    \/ McFetchHistoricalTrades
    \/ McEnsureTradeHistory
    \/ McHistPage
    \/ McHistFails
    \/ McHistRaises
    \/ McHistLoopEnds
    \/ McHistPush
    \/ McHistDone
    \/ McGetBufferedTrades

CollectorSpec == McInit /\ [][McNext]_vars

\* Non-decreasing timestamps.
TimeOrdered(q) == \A i \in 1..(Len(q) - 1) : q[i].T <= q[i + 1].T

\* C22: a trade query returns the buffered trades of its window ordered by
\* non-decreasing timestamp.
C22_QueryIsTimeOrdered == mc.asked => TimeOrdered(mc.got)

\* C23: when fetch_historical_trades returns, every trade it fetched in the
\* call has been pushed into the buffer.
C23_ReturnedFetchPushedEverything ==
    mc.hf.pc = "returned" =>
        \A i \in 1..Len(mc.hf.fetched) :
            \E j \in 1..Len(mc.hf.pushed) : mc.hf.pushed[j] = mc.hf.fetched[i]

\* ============================================================ retry wrappers

rtOthers == <<bvars, ttl, pe, rq, ws, rb, mc, an, lk, ov, lv>>

\* RetryConfig.retry_codes (rate_limit_utils.py:32)
RetryCodes == {-1003, -1015, 429}

\* What one invocation of the wrapped call can do: succeed, fail with a
\* code (0: no code in the error), or raise.
Failures == [kind : {"fail"}, code : RetryCodes \cup {OtherErrorCode, 0}]

Succeeded == [kind |-> "ok", code |-> 0]

Raised == [kind |-> "raise", code |-> 0]

\* The two wrappers: the decorator's wrapper (rate_limit_utils.py:208-283,
\* after a cache miss) and make_api_call_with_backoff (289-356).
RtInit ==
    /\ BracketIdle
    /\ lv = LvIdle
    /\ ov = OvIdle
    /\ lk = LkIdle
    /\ ttl = TtlIdle
    /\ pe = PeIdle
    /\ rq = RqIdle
    /\ ws = WsNew
    /\ rb = RbNew
    /\ mc = McNew
    /\ an = AnNew
    /\ \E f \in {"with_retry_and_cache", "make_api_call_with_backoff"},
          m \in 0..MaxRetries :
         rt = [RtIdle EXCEPT !.pc = "loop", !.wrapper = f, !.max_retries = m]

Retryable_AnyCode(code) == TRUE

\* rate_limit_utils.py:235, 321
Retryable(code) == code \in RetryCodes

\* rate_limit_utils.py:236, 264, 322, 341
MayRetry(attempt, max_retries) == attempt < max_retries

\* `continue`, or falling out of the except clause: the next round of
\* `for attempt in range(max_retries + 1)`.
NextRound(r) ==
    [r EXCEPT !.attempt = r.attempt + 1,
              !.pc = IF r.attempt + 1 < r.max_retries + 1
                     THEN "loop" ELSE "after"]

\* rate_limit_utils.py:229, 251-255 and 312-315
RtSucceeds ==
    /\ rt.pc = "loop"
    /\ rt' = [rt EXCEPT !.outcomes = Append(rt.outcomes, Succeeded),
                        !.pc = "returned",
                        !.ret = [success |-> TRUE, kind |-> "result",
                                 code |-> 0]]
    /\ UNCHANGED rtOthers

\* rate_limit_utils.py:231-255 and 317-336: the call reports a failure
RtFails ==
    /\ rt.pc = "loop"
    /\ \E o \in Failures :
         LET r == [rt EXCEPT !.outcomes = Append(rt.outcomes, o)] IN
         rt' = IF Retryable(o.code) /\ MayRetry(rt.attempt, rt.max_retries)
               THEN NextRound(r)
               ELSE [r EXCEPT !.pc = "returned",
                              !.ret = [success |-> FALSE, kind |-> "error",
                                       code |-> o.code]]
    /\ UNCHANGED rtOthers

\* rate_limit_utils.py:262-270 and 339-354: the call raises
RtRaises ==
    /\ rt.pc = "loop"
    /\ rt' = NextRound([rt EXCEPT !.outcomes = Append(rt.outcomes, Raised),
                                  !.last_error = TRUE])
    /\ UNCHANGED rtOthers

\* rate_limit_utils.py:272-283 and 356: after the loop
RtAfterLoop ==
    /\ rt.pc = "after"
    /\ rt' = [rt EXCEPT !.pc = "returned",
                !.ret = IF rt.wrapper = "with_retry_and_cache"
                        THEN [success |-> FALSE, kind |-> "retry_exhausted",
                              code |-> 0]
                        ELSE [success |-> FALSE, kind |-> "failed_after",
                              code |-> 0]]
    /\ UNCHANGED rtOthers

RtNext ==
    \/ RtSucceeds
    \/ RtFails
    \/ RtRaises
    \/ RtAfterLoop

RetrySpec == RtInit /\ [][RtNext]_vars

\* The invocation may be followed by another one.
RetryableOutcome(o) ==
    o.kind = "raise" \/ (o.kind = "fail" /\ o.code \in RetryCodes)

\* C24: the wrapped call is invoked at most max_retries + 1 times, each
\* invocation but the first follows a retryable failure or an exception, and
\* any other failure is returned by the invocation that produced it.
C24_BoundedRetriesOnRetryableOnly ==
    /\ Len(rt.outcomes) <= rt.max_retries + 1
    /\ \A i \in 1..(Len(rt.outcomes) - 1) : RetryableOutcome(rt.outcomes[i])
    /\ \A i \in 1..Len(rt.outcomes) :
         rt.outcomes[i].kind = "fail" /\ ~RetryableOutcome(rt.outcomes[i]) =>
             /\ i = Len(rt.outcomes)
             /\ rt.pc = "returned"
             /\ rt.ret = [success |-> FALSE, kind |-> "error",
                          code |-> rt.outcomes[i].code]

\* A call that was retried to the last attempt, and one that stopped at its
\* second invocation on a failure with another code.
C24_Witness ==
    /\ rt.pc = "returned"
    /\ rt.max_retries = MaxRetries
    /\ \/ Len(rt.outcomes) = MaxRetries + 1
       \/ /\ Len(rt.outcomes) = 2
          /\ rt.outcomes[2] = [kind |-> "fail", code |-> OtherErrorCode]

\* C25: when every attempt of a retried call has failed, the caller gets an
\* error of kind retry_exhausted.
C25_AllAttemptsFailedGivesRetryExhausted ==
    (/\ rt.pc = "returned"
     /\ rt.max_retries > 0
     /\ Len(rt.outcomes) = rt.max_retries + 1
     /\ \A i \in 1..Len(rt.outcomes) : RetryableOutcome(rt.outcomes[i]))
    => rt.ret.kind = "retry_exhausted"

\* ========================================================= ParameterCache

anOthers == <<bvars, ttl, pe, rq, ws, rb, mc, rt, lk, ov, lv>>

AnInit ==
    /\ BracketIdle
    /\ lv = LvIdle
    /\ ov = OvIdle
    /\ lk = LkIdle
    /\ ttl = TtlIdle
    /\ pe = PeIdle
    /\ rq = RqIdle
    /\ ws = WsNew
    /\ rb = RbNew
    /\ mc = McNew
    /\ rt = RtIdle
    /\ an = AnNew

Expired_AtTtl(elapsed, entry_ttl) == elapsed >= entry_ttl

\* ParameterCache.get (rate_limit_utils.py:103-106)
Expired(elapsed, entry_ttl) == elapsed > entry_ttl

\* ParameterCache.get (rate_limit_utils.py:99-113): (hit, value)
CacheGet(key) ==
    LET c == an.cache[key] IN
    IF ~c.present \/ Expired(an.now - c.at, CacheTtl)
    THEN [hit |-> FALSE, value |-> NoResponse]
    ELSE [hit |-> TRUE, value |-> c.value]

\* The ways a tool is put behind the cache: by hand
\* (volume_profile_levels_ws.py:453-463, 611) or by the decorator
\* (rate_limit_utils.py:208-255).
Vias == {"inline", "with_retry_and_cache"}

\* time.time() moves on
AnTick ==
    /\ an.now < MaxCacheNow
    /\ an' = [an EXCEPT !.now = an.now + 1]
    /\ UNCHANGED anOthers

\* volume_profile_levels_ws.py:459-463 and rate_limit_utils.py:216-223: a
\* call that finds its result in the cache. The inline form stamps the
\* cached dict itself, the decorator a copy of it.
AnCallHit ==
    /\ an.pc = "idle"
    /\ \E key \in 1..MaxKeys, via \in Vias :
         /\ CacheGet(key).hit
         /\ an' = [an EXCEPT
                !.pc = "returned", !.via = via, !.key = key,
                !.started = an.now, !.fetched = FALSE, !.success = TRUE,
                !.at = an.cache[key].at,
                !.ret = [CacheGet(key).value EXCEPT !.cache_hit = TRUE],
                !.cache[key].value.cache_hit =
                    IF via = "inline" THEN TRUE
                    ELSE an.cache[key].value.cache_hit]
    /\ UNCHANGED anOthers

\* rate_limit_utils.py:103-110: a call that misses; an expired entry is
\* deleted.
AnCallMiss ==
    /\ an.pc = "idle"
    /\ an.computed < MaxResponses
    /\ \E key \in 1..MaxKeys, via \in Vias :
         /\ ~CacheGet(key).hit
         /\ an' = [an EXCEPT !.pc = "work", !.via = via, !.key = key,
                             !.started = an.now, !.fetched = FALSE,
                             !.cache[key] = NoEntry]
    /\ UNCHANGED anOthers

\* volume_profile_levels_ws.py:465-613 and rate_limit_utils.py:229, 251-257:
\* the data is fetched, the response built, stored and returned.
AnWorkDone ==
    /\ an.pc = "work"
    /\ LET response == [id |-> an.computed + 1, cache_hit |-> FALSE] IN
       an' = [an EXCEPT !.pc = "returned", !.fetched = TRUE,
                        !.success = TRUE, !.computed = an.computed + 1,
                        !.at = an.now, !.ret = response,
                        !.cache[an.key] = [present |-> TRUE, at |-> an.now,
                                           value |-> response]]
    /\ UNCHANGED anOthers

\* volume_profile_levels_ws.py:488-500 and rate_limit_utils.py:257: an error
\* response is returned and not stored.
AnWorkFails ==
    /\ an.pc = "work"
    /\ an' = [an EXCEPT !.pc = "returned", !.fetched = TRUE,
                        !.success = FALSE, !.ret = NoResponse]
    /\ UNCHANGED anOthers

\* the caller has the response
AnReturn ==
    /\ an.pc = "returned"
    /\ an' = [an EXCEPT !.pc = "idle",
                        !.prev = [key |-> an.key, success |-> an.success,
                                  id |-> an.ret.id, at |-> an.at]]
    /\ UNCHANGED anOthers

AnNext ==
    \/ AnTick
    \/ AnCallHit
    \/ AnCallMiss
    \/ AnWorkDone
    \/ AnWorkFails
    \/ AnReturn

CacheSpec == AnInit /\ [][AnNext]_vars

\* The call that has just returned had the arguments of the successful call
\* before it and was made within the TTL of that call's entry.
AnRepeatWithinTtl ==
    /\ an.pc = "returned"
    /\ an.prev.success
    /\ an.prev.key = an.key
    /\ an.started - an.prev.at <= CacheTtl

\* C26: the second of two consecutive calls with the same normalized
\* arguments, made within the TTL after a successful first, returns the
\* first's payload stamped _cache_hit = true and fetches nothing.
C26_RepeatWithinTtlIsServedFromCache ==
    AnRepeatWithinTtl =>
        /\ an.ret.id = an.prev.id
        /\ an.ret.cache_hit
        /\ ~an.fetched

\* A repeat at the very end of the TTL, after a tick of the clock.
C26_Witness ==
    /\ AnRepeatWithinTtl
    /\ an.started - an.prev.at = CacheTtl
    /\ an.ret.cache_hit

\* ================================================================== locks

lkOthers == <<bvars, ttl, pe, rq, ws, rb, mc, rt, an, ov, lv>>

\* The instructions that matter for the locks: entering and leaving a
\* `with <lock>:` block, sending a request to the exchange and getting its
\* response (or its failure), sleeping, and anything else. `next` holds the
\* instructions that may follow.
Acquire(l, n) == [op |-> "acquire", lock |-> l, next |-> n]

Release(l, n) == [op |-> "release", lock |-> l, next |-> n]

Send(n) == [op |-> "send", lock |-> "none", next |-> n]

Receive(n) == [op |-> "receive", lock |-> "none", next |-> n]

Sleep(n) == [op |-> "sleep", lock |-> "none", next |-> n]

Skip(n) == [op |-> "skip", lock |-> "none", next |-> n]

\* _monitor_bracket (bracket_orders.py:66-199)
MonitorProgram ==
    [begin       |-> Skip({"p1_lock", "p2_enter"}),                      \* 90
     p1_lock     |-> Acquire("_bracket_jobs_lock", {"p1_unlock"}),       \* 94
     p1_unlock   |-> Release("_bracket_jobs_lock", {"p1_get", "end"}),   \* 95-99
     p1_get      |-> Send({"p1_got"}),                                   \* 101
     p1_got      |-> Receive({"fill_lock", "fail_lock", "p1_sleep",
                              "err_lock"}),                              \* 102-126
     fill_lock   |-> Acquire("_bracket_jobs_lock", {"fill_unlock"}),     \* 109
     fill_unlock |-> Release("_bracket_jobs_lock", {"post", "upd_lock"}),
     post        |-> Send({"posted"}),                                   \* 114
     posted      |-> Receive({"post", "upd_lock"}),
     upd_lock    |-> Acquire("_bracket_jobs_lock", {"upd_unlock"}),      \* 118
     upd_unlock  |-> Release("_bracket_jobs_lock", {"p2_enter"}),
     fail_lock   |-> Acquire("_bracket_jobs_lock", {"fail_unlock"}),     \* 129
     fail_unlock |-> Release("_bracket_jobs_lock", {"end"}),
     p1_sleep    |-> Sleep({"p1_lock", "p2_enter"}),                     \* 134
     p2_enter    |-> Skip({"none_lock", "p2_lock", "late_lock"}),        \* 137-147
     none_lock   |-> Acquire("_bracket_jobs_lock", {"none_unlock"}),     \* 141
     none_unlock |-> Release("_bracket_jobs_lock", {"end"}),
     p2_lock     |-> Acquire("_bracket_jobs_lock", {"p2_unlock"}),       \* 148
     p2_unlock   |-> Release("_bracket_jobs_lock", {"p2_get", "end"}),
     p2_get      |-> Send({"p2_got"}),                                   \* 160
     p2_got      |-> Receive({"p2_get", "cancel", "done_lock",
                              "p2_sleep", "err_lock"}),
     cancel      |-> Send({"cancelled"}),                                \* 174
     cancelled   |-> Receive({"cancel", "done_lock"}),
     done_lock   |-> Acquire("_bracket_jobs_lock", {"done_unlock"}),     \* 177
     done_unlock |-> Release("_bracket_jobs_lock", {"end"}),
     p2_sleep    |-> Sleep({"p2_lock", "late_lock"}),                    \* 186
     late_lock   |-> Acquire("_bracket_jobs_lock", {"late_unlock"}),     \* 189
     late_unlock |-> Release("_bracket_jobs_lock", {"end"}),
     err_lock    |-> Acquire("_bracket_jobs_lock", {"err_unlock"}),      \* 195
     err_unlock  |-> Release("_bracket_jobs_lock", {"end"})]

CancellerProgram_CancelsUnderLock ==
    [begin        |-> Acquire("_bracket_jobs_lock", {"cancel", "unlock"}),
     cancel       |-> Send({"cancelled"}),
     cancelled    |-> Receive({"cancel", "unlock"}),
     unlock       |-> Release("_bracket_jobs_lock", {"final_lock", "end"}),
     final_lock   |-> Acquire("_bracket_jobs_lock", {"final_unlock"}),
     final_unlock |-> Release("_bracket_jobs_lock", {"end"})]

\* cancel_bracket_job (bracket_orders.py:640-700)
CancellerProgram ==
    [begin        |-> Acquire("_bracket_jobs_lock", {"unlock"}),         \* 650
     unlock       |-> Release("_bracket_jobs_lock",
                              {"cancel", "final_lock", "end"}),          \* 651-663
     cancel       |-> Send({"cancelled"}),                               \* 672-688
     cancelled    |-> Receive({"cancel", "final_lock"}),
     final_lock   |-> Acquire("_bracket_jobs_lock", {"final_unlock"}),   \* 691
     final_unlock |-> Release("_bracket_jobs_lock", {"end"})]

\* _ttl_worker (cancel_on_ttl.py:52-120)
TtlWorkerProgram ==
    [begin       |-> Acquire("_jobs_lock", {"wait_unlock"}),             \* 56
     wait_unlock |-> Release("_jobs_lock", {"sleep"}),
     sleep       |-> Sleep({"exec_lock"}),                               \* 60
     exec_lock   |-> Acquire("_jobs_lock", {"exec_unlock"}),             \* 62
     exec_unlock |-> Release("_jobs_lock", {"get", "end"}),              \* 63-68
     get         |-> Send({"got"}),                                      \* 74
     got         |-> Receive({"cancel", "final_lock"}),                  \* 76-101
     cancel      |-> Send({"cancelled"}),                                \* 86
     cancelled   |-> Receive({"final_lock"}),
     final_lock  |-> Acquire("_jobs_lock", {"final_unlock"}),            \* 77, 88, 102, 116
     final_unlock |-> Release("_jobs_lock", {"end"})]

\* cancel_ttl_job (cancel_on_ttl.py:386-408)
TtlCancellerProgram ==
    [begin  |-> Acquire("_jobs_lock", {"unlock"}),
     unlock |-> Release("_jobs_lock", {"end"})]

\* MarketDataCollector.fetch_recent_trades (market_data_collector.py:
\* 254-310) with MarketDataCache.get/set (101-124), _get_trade_buffer
\* (199-204) and TradeBuffer.add_trades / clear_old_trades (144-161)
FetcherProgram ==
    [begin         |-> Skip({"cache_lock", "get"}),                      \* 271-273
     cache_lock    |-> Acquire("cache", {"cache_unlock"}),               \* 274
     cache_unlock  |-> Release("cache", {"get", "end"}),                 \* 275-276
     get           |-> Send({"got"}),                                    \* 279
     got           |-> Receive({"table_lock", "end"}),                   \* 284-285, 308
     table_lock    |-> Acquire("buffers", {"table_unlock"}),             \* 301
     table_unlock  |-> Release("buffers", {"add_lock"}),
     add_lock      |-> Acquire("buffer", {"add_unlock"}),                \* 302
     add_unlock    |-> Release("buffer", {"clear_lock"}),
     clear_lock    |-> Acquire("buffer", {"clear_unlock"}),              \* 303
     clear_unlock  |-> Release("buffer", {"set_lock"}),
     set_lock      |-> Acquire("cache", {"set_unlock"}),                 \* 305
     set_unlock    |-> Release("cache", {"end"})]

\* A caller that asks the rate tracker before its request:
\* RateLimitTracker.wait_if_needed and record_request
\* (rate_limit_utils.py:378-407), then the request.
LimitedProgram ==
    [begin          |-> Acquire("tracker", {"clean_unlock"}),            \* 386
     clean_unlock   |-> Release("tracker", {"wait_lock"}),
     wait_lock      |-> Acquire("tracker", {"wait_sleep", "wait_unlock"}), \* 398
     wait_sleep     |-> Sleep({"wait_unlock"}),                          \* 405
     wait_unlock    |-> Release("tracker", {"record_lock"}),
     record_lock    |-> Acquire("tracker", {"record_unlock"}),           \* 380
     record_unlock  |-> Release("tracker", {"get"}),
     get            |-> Send({"got"}),
     got            |-> Receive({"end"})]

Program(t) ==
    CASE t = "monitor" -> MonitorProgram
      [] t = "canceller" -> CancellerProgram
      [] t = "ttl_worker" -> TtlWorkerProgram
      [] t = "ttl_canceller" -> TtlCancellerProgram
      [] t = "fetcher" -> FetcherProgram
      [] t = "limited" -> LimitedProgram

\* The threads that share a lock.
LockGroups == {{"monitor", "canceller"}, {"ttl_worker", "ttl_canceller"},
               {"fetcher"}, {"limited"}}

\* The threads of one group are about to start.
LkInit ==
    /\ BracketIdle
    /\ lv = LvIdle
    /\ ov = OvIdle
    /\ ttl = TtlIdle
    /\ pe = PeIdle
    /\ rq = RqIdle
    /\ ws = WsNew
    /\ rb = RbNew
    /\ mc = McNew
    /\ rt = RtIdle
    /\ an = AnNew
    /\ \E g \in LockGroups :
         lk = [LkIdle EXCEPT !.pc = [t \in Threads |->
                                       IF t \in g THEN "begin" ELSE "none"]]

\* The instruction thread t is at, if it is at one of kind op.
At(t, op) ==
    /\ lk.pc[t] \in DOMAIN Program(t)
    /\ Program(t)[lk.pc[t]].op = op

Instr(t) == Program(t)[lk.pc[t]]

\* `with lock:` is entered; the thread waits while another holds the lock.
LkAcquire ==
    /\ \E t \in Threads :
         /\ At(t, "acquire")
         /\ lk.holder[Instr(t).lock] = "none"
         /\ \E n \in Instr(t).next :
              lk' = [lk EXCEPT !.pc[t] = n, !.holder[Instr(t).lock] = t]
    /\ UNCHANGED lkOthers

\* the `with` block is left
LkRelease ==
    /\ \E t \in Threads :
         /\ At(t, "release")
         /\ \E n \in Instr(t).next :
              lk' = [lk EXCEPT !.pc[t] = n, !.holder[Instr(t).lock] = "none"]
    /\ UNCHANGED lkOthers

\* a request goes out to the exchange
LkSend ==
    /\ \E t \in Threads :
         /\ At(t, "send")
         /\ \E n \in Instr(t).next :
              lk' = [lk EXCEPT !.pc[t] = n,
                               !.in_flight = lk.in_flight \cup {t}]
    /\ UNCHANGED lkOthers

\* the response, or the failure of the request, is there
LkReceive ==
    /\ \E t \in Threads :
         /\ At(t, "receive")
         /\ \E n \in Instr(t).next :
              lk' = [lk EXCEPT !.pc[t] = n,
                               !.in_flight = lk.in_flight \ {t}]
    /\ UNCHANGED lkOthers

\* time.sleep returns
LkSleep ==
    /\ \E t \in Threads :
         /\ At(t, "sleep")
         /\ \E n \in Instr(t).next : lk' = [lk EXCEPT !.pc[t] = n]
    /\ UNCHANGED lkOthers

LkSkip ==
    /\ \E t \in Threads :
         /\ At(t, "skip")
         /\ \E n \in Instr(t).next : lk' = [lk EXCEPT !.pc[t] = n]
    /\ UNCHANGED lkOthers

LkNext ==
    \/ LkAcquire
    \/ LkRelease
    \/ LkSend
    \/ LkReceive
    \/ LkSleep
    \/ LkSkip

LockSpec == LkInit /\ [][LkNext]_vars

\* C27: a thread with a request to the exchange in flight holds none of the
\* registry, cache, buffer and rate-tracker locks.
C27_NoLockAcrossExchangeRequest ==
    \A t \in lk.in_flight : \A l \in Locks : lk.holder[l] # t

\* The canceller's request is in flight while the monitor is inside a
\* registry block.
C27_Witness ==
    /\ "canceller" \in lk.in_flight
    /\ lk.holder["_bracket_jobs_lock"] = "monitor"

\* ------------------------------------------------------ OrderValidator
\*
\* futures_utils.py: OrderValidator holds one symbol's filters and checks one
\* order against them. Prices and quantities are whole numbers of the
\* smallest unit a caller can write; a tick or a step is a whole number of
\* those units, so that a value between two ticks is rounded down.

ovOthers == <<bvars, ttl, pe, rq, ws, rb, mc, rt, an, lk, lv>>

\* The filters _parse_symbol_info extracts (futures_utils.py:76-143). The
\* market lot size may differ from the lot size.
Filters ==
    [tick_size : 1..MaxTick, step_size : 1..MaxStep,
     min_qty : 1..MaxMinQty, max_qty : {MaxOrderQty - 1},
     min_notional : 1..MaxMinNotional,
     market_step_size : 1..MaxStep, market_min_qty : 1..MaxMinQty,
     market_max_qty : {MaxOrderQty - 1}]

\* The filters of a symbol without a MARKET_LOT_SIZE filter.
PlainFilters ==
    {f \in Filters : /\ f.market_step_size = f.step_size
                     /\ f.market_min_qty = f.min_qty
                     /\ f.market_max_qty = f.max_qty}

OrderInit ==
    /\ BracketIdle
    /\ lv = LvIdle
    /\ ttl = TtlIdle
    /\ pe = PeIdle
    /\ rq = RqIdle
    /\ ws = WsNew
    /\ rb = RbNew
    /\ mc = McNew
    /\ rt = RtIdle
    /\ an = AnNew
    /\ lk = LkIdle
    /\ ov \in {[OvIdle EXCEPT !.filters = f] : f \in Filters}

\* 10 ** -precision for a tick or step (futures_utils.py:194-195, 217-218):
\* the unit of its last written digit, the coarsest one a tick written
\* without trailing zeros has.
RECURSIVE Unit(_)

Unit(size) == IF size % 10 = 0 THEN 10 * Unit(size \div 10) ELSE 1

\* Decimal.quantize under the default context: to the nearest multiple of
\* the unit, a tie to the even one.
Quantize(x, unit) ==
    LET r == x % unit
        down == x - r
    IN  IF 2 * r < unit \/ (2 * r = unit /\ (down \div unit) % 2 = 0)
        THEN down
        ELSE down + unit

\* A rounding to the nearest tick.
RoundToTick_Nearest(value, tick_size) ==
    ((2 * value + tick_size) \div (2 * tick_size)) * tick_size

\* round_to_tick_size (futures_utils.py:180-200): (val // tick) * tick,
\* quantized to the tick's precision
RoundToTick(value, tick_size) ==
    Quantize((value \div tick_size) * tick_size, Unit(tick_size))

\* round_to_step_size (futures_utils.py:203-223): (val // step) * step,
\* quantized to the step's precision
RoundToStep(value, step_size) ==
    Quantize((value \div step_size) * step_size, Unit(step_size))

\* validate_and_round_price (futures_utils.py:253-271)
ValidateAndRoundPrice(f, price) ==
    IF price <= 0
    THEN [valid |-> FALSE, rounded |-> 0]
    ELSE LET rounded == RoundToTick(price, f.tick_size)
         IN  IF rounded <= 0
             THEN [valid |-> FALSE, rounded |-> 0]
             ELSE [valid |-> TRUE, rounded |-> rounded]

\* validate_and_round_quantity (futures_utils.py:273-300)
ValidateAndRoundQuantity(f, quantity, is_market) ==
    IF quantity <= 0
    THEN [valid |-> FALSE, rounded |-> 0]
    ELSE LET step == IF is_market THEN f.market_step_size ELSE f.step_size
             min_q == IF is_market THEN f.market_min_qty ELSE f.min_qty
             max_q == IF is_market THEN f.market_max_qty ELSE f.max_qty
             rounded == RoundToStep(quantity, step)
         IN  [valid |-> rounded >= min_q /\ rounded <= max_q,
              rounded |-> rounded]

\* A notional check that lets every order through.
ValidateNotional_Accepting(f, price, quantity) == TRUE

\* validate_notional (futures_utils.py:301-317)
ValidateNotional(f, price, quantity) == price * quantity >= f.min_notional

\* str.upper() on the sides a caller writes.
Upper(s) == CASE s = "buy" -> "BUY" [] s = "sell" -> "SELL" [] OTHER -> s

Sides == {"BUY", "SELL", "buy", "HOLD"}

ValidTypes == {"LIMIT", "MARKET", "STOP", "STOP_MARKET", "TAKE_PROFIT",
               "TAKE_PROFIT_MARKET", "TRAILING_STOP_MARKET"}

MarketTypes == {"MARKET", "STOP_MARKET", "TAKE_PROFIT_MARKET"}

PricedTypes == {"LIMIT", "STOP", "TAKE_PROFIT"}

OrderTypes == ValidTypes \cup {"ICEBERG"}

\* validate_order (futures_utils.py:319-412): the dict it returns, with
\* `valid` as `accepted` and the entries of `rounded` that were set.
ValidateOrder(f, side, order_type, quantity, price, stop_price) ==
    LET is_market == order_type \in MarketTypes
        q == ValidateAndRoundQuantity(f, quantity, is_market)
        priced == order_type \in PricedTypes
        p == IF priced /\ price # None
             THEN ValidateAndRoundPrice(f, price)
             ELSE [valid |-> FALSE, rounded |-> 0]
        notional_valid ==
            ValidateNotional(f, p.rounded,
                             IF q.valid THEN q.rounded ELSE quantity)
        s == IF stop_price # None
             THEN ValidateAndRoundPrice(f, stop_price)
             ELSE [valid |-> FALSE, rounded |-> 0]
        errors == \/ Upper(side) \notin {"BUY", "SELL"}
                  \/ order_type \notin ValidTypes
                  \/ ~q.valid
                  \/ priced /\ (price = None \/ ~p.valid \/ ~notional_valid)
                  \/ stop_price # None /\ ~s.valid
    IN  [accepted |-> ~errors,
         side |-> Upper(side),
         type |-> order_type,
         price |-> IF p.valid THEN p.rounded ELSE None,
         quantity |-> IF q.valid THEN q.rounded ELSE None,
         stop |-> IF s.valid THEN s.rounded ELSE None,
         tps |-> <<>>,
         warnings |-> {x \in {"quantity"} : q.valid /\ q.rounded # quantity}
                      \cup {x \in {"price"} : p.valid /\ p.rounded # price}
                      \cup {x \in {"stopPrice"} :
                                s.valid /\ s.rounded # stop_price},
         suggested |-> None]

OptionalPrices == {None} \cup 0..MaxPrice

\* One call of OrderValidator.validate_order.
OvValidateOrder ==
    /\ ov.call = "none"
    /\ \E side \in Sides, order_type \in OrderTypes,
          quantity \in 0..MaxOrderQty, price \in OptionalPrices,
          stop_price \in OptionalPrices :
          ov' = [ov EXCEPT
                    !.call = "validate_order",
                    !.result = ValidateOrder(ov.filters, side, order_type,
                                             quantity, price, stop_price)]
    /\ UNCHANGED ovOthers

\* The caller has taken the result; the validator keeps nothing of a call.
OvReturn ==
    /\ ov.call # "none"
    /\ ov' = [ov EXCEPT !.call = "none", !.result = NoResult,
                        !.args = NoArgs]
    /\ UNCHANGED ovOthers

OrderNext == OvValidateOrder \/ OvReturn

OrderSpec == OrderInit /\ [][OrderNext]_vars

\* C30: whenever validate_order reports an order with a price as valid, the
\* rounded price times the rounded quantity is at least min_notional, and the
\* rounded quantity lies between min_qty and max_qty.
C30_ValidPricedOrderMeetsNotionalAndLot ==
    (ov.call = "validate_order" /\ ov.result.accepted
     /\ ov.result.price # None)
        => /\ ov.result.price * ov.result.quantity >= ov.filters.min_notional
           /\ ov.filters.min_qty <= ov.result.quantity
           /\ ov.result.quantity <= ov.filters.max_qty

\* A valid priced order whose price and quantity were both rounded down by
\* filters whose market lot size is looser than the lot size.
C30_Witness ==
    /\ ov.call = "validate_order"
    /\ ov.result.accepted
    /\ ov.result.price # None
    /\ {"price", "quantity"} \subseteq ov.result.warnings
    /\ ov.filters.market_min_qty < ov.filters.min_qty

\* ------------------------------------------- order plans and bracket entry
\*
\* validate_order_plan.py and the checks place_bracket_orders_futures makes
\* before it sends the entry (bracket_orders.py:355-498). Both take the
\* symbol's validator and call it with is_market left at False. The symbol
\* is a known one; what follows the entry's submission is the bracket job
\* above.

\* The filters the plans are checked against: every tick and step, the
\* smallest minimum quantity and the largest minimum notional.
PlanFilters ==
    {f \in PlainFilters : f.min_qty = 1 /\ f.min_notional = MaxMinNotional}

\* The sides a caller of the plan tools writes.
PlanSides == {"BUY", "SELL", "HOLD"}

PlanInit ==
    /\ BracketIdle
    /\ lv = LvIdle
    /\ ttl = TtlIdle
    /\ pe = PeIdle
    /\ rq = RqIdle
    /\ ws = WsNew
    /\ rb = RbNew
    /\ mc = McNew
    /\ rt = RtIdle
    /\ an = AnNew
    /\ lk = LkIdle
    /\ ov \in {[OvIdle EXCEPT !.filters = f] : f \in PlanFilters}

\* The percentages of the entry quantity a take profit may name.
Percentages == {50, 100}

\* One take profit as the caller writes it: a price and a quantity or a
\* percentage (tp.get gives None for a missing key).
TakeProfitInputs ==
    {tp \in [price : OptionalPrices,
             quantity : {None} \cup 1..MaxOrderQty,
             percentage : {None} \cup Percentages] :
        tp.quantity = None \/ tp.percentage = None}

TakeProfitLists == UNION {[1..n -> TakeProfitInputs] : n \in 0..MaxPlanTPs}

\* float(qty_rounded) * (tp_pct / 100), in whole units: the step rounding
\* that follows rounds down, and a product below one unit is below min_qty.
PercentOf(qty_rounded, tp_pct) == (qty_rounded * tp_pct) \div 100

\* The direction tests (validate_order_plan.py:193-202, 233-240;
\* bracket_orders.py:400-411, 430-441).
StopOnWrongSide(side, sl_rounded, entry_rounded) ==
    \/ side = "BUY" /\ sl_rounded >= entry_rounded
    \/ side = "SELL" /\ sl_rounded <= entry_rounded

TakeProfitOnWrongSide(side, tp_rounded, entry_rounded) ==
    \/ side = "BUY" /\ tp_rounded <= entry_rounded
    \/ side = "SELL" /\ tp_rounded >= entry_rounded

\* The quantity of one take profit (validate_order_plan.py:242-255,
\* bracket_orders.py:443-463): the explicit one, or the percentage of the
\* entry quantity.
TakeProfitQuantity(f, tp, q) ==
    IF tp.quantity # None
    THEN ValidateAndRoundQuantity(f, tp.quantity, FALSE)
    ELSE IF tp.percentage # None /\ q.valid
    THEN ValidateAndRoundQuantity(f, PercentOf(q.rounded, tp.percentage),
                                  FALSE)
    ELSE [valid |-> FALSE, rounded |-> 0]

\* The take-profit loop of validate_order_plan (validate_order_plan.py:
\* 207-257) over the first n entries: whether it left the plan valid, the
\* list it built and total_tp_qty.
RECURSIVE PlanTakeProfits(_, _, _, _, _, _)

PlanTakeProfits(f, side, e, q, take_profits, n) ==
    IF n = 0
    THEN [valid |-> TRUE, data |-> <<>>, total |-> 0]
    ELSE LET acc == PlanTakeProfits(f, side, e, q, take_profits, n - 1)
             tp == take_profits[n]
             p == ValidateAndRoundPrice(f, tp.price)
             tq == TakeProfitQuantity(f, tp, q)
         IN  IF tp.price = None
             THEN [acc EXCEPT !.valid = FALSE]
             ELSE [valid |->
                       /\ acc.valid
                       /\ p.valid
                       /\ ~(e.valid /\ TakeProfitOnWrongSide(side, p.rounded,
                                                             e.rounded)),
                   data |->
                       Append(acc.data,
                              [price |-> IF p.valid THEN p.rounded ELSE None,
                               quantity |-> IF tq.valid THEN tq.rounded
                                            ELSE None]),
                   total |-> acc.total + IF tq.valid THEN tq.rounded ELSE 0]

\* The quantity suggested after a min_notional_fail (validate_order_plan.py:
\* 166-169): min_notional / price, times 1.01, rounded down to the step. The
\* step rounding rounds down, so the whole units of the quotient are enough.
SuggestedQuantity(f, price_rounded) ==
    RoundToStep((f.min_notional * 101) \div (price_rounded * 100),
                f.step_size)

\* validate_order_plan_futures (validate_order_plan.py:103-323) for a valid
\* side, up to the leverage and margin-type checks (266-303): `valid` as
\* `accepted`, the rounded values of `data` and the reason codes.
ValidateOrderPlan(f, side, entry_price, quantity, stop_loss, tps_given) ==
    LET e == ValidateAndRoundPrice(f, entry_price)
        q == ValidateAndRoundQuantity(f, quantity, FALSE)
        notional_fail == e.valid /\ q.valid
                         /\ ~ValidateNotional(f, e.rounded, q.rounded)
        s == IF stop_loss # None
             THEN ValidateAndRoundPrice(f, stop_loss)
             ELSE [valid |-> FALSE, rounded |-> 0]
        sl_fail == /\ stop_loss # None
                   /\ \/ ~s.valid
                      \/ e.valid /\ StopOnWrongSide(side, s.rounded, e.rounded)
        tps == PlanTakeProfits(f, side, e, q, tps_given,
                               Len(tps_given))
    IN  [accepted |-> /\ e.valid
                      /\ q.valid
                      /\ ~notional_fail
                      /\ ~sl_fail
                      /\ tps.valid,
         side |-> side,
         type |-> "plan",
         price |-> IF e.valid THEN e.rounded ELSE None,
         quantity |-> IF q.valid THEN q.rounded ELSE None,
         stop |-> IF s.valid THEN s.rounded ELSE None,
         tps |-> tps.data,
         warnings |->
             {x \in {"entry_price_rounded"} :
                 e.valid /\ e.rounded # entry_price}
             \cup {x \in {"quantity_step_rounding_applied"} :
                      q.valid /\ q.rounded # quantity}
             \cup {x \in {"stop_loss_price_rounded"} :
                      s.valid /\ s.rounded # stop_loss}
             \cup {x \in {"tp_total_quantity_exceeds_entry"} :
                      q.valid /\ tps.total > q.rounded}
             \cup {x \in {"min_notional_fail"} : notional_fail},
         suggested |-> IF notional_fail
                       THEN SuggestedQuantity(f, e.rounded)
                       ELSE None]

\* A call that ended in create_error_response.
ErrorResponse(side, type) == [NoResult EXCEPT !.side = side, !.type = type]

\* One call of validate_order_plan_futures. others_valid is the verdict of
\* the leverage and margin-type checks (validate_order_plan.py:266-303).
OvValidateOrderPlan ==
    /\ ov.call = "none"
    /\ \E given_side \in PlanSides :
          LET side == Upper(given_side)
          IN  IF side \notin {"BUY", "SELL"}
              THEN ov' = [ov EXCEPT !.call = "validate_order_plan",
                                    !.result = ErrorResponse(side, "plan")]
              ELSE \E entry_price \in 0..MaxPrice,
                      quantity \in 0..MaxOrderQty,
                      stop_loss \in OptionalPrices,
                      take_profits \in TakeProfitLists :
                      LET r == ValidateOrderPlan(ov.filters, side,
                                                 entry_price, quantity,
                                                 stop_loss, take_profits)
                      IN  \E others_valid \in BOOLEAN :
                              ov' = [ov EXCEPT
                                        !.call = "validate_order_plan",
                                        !.result =
                                            [r EXCEPT !.accepted =
                                                 r.accepted /\ others_valid]]
    /\ UNCHANGED ovOthers

\* The take-profit loop of place_bracket_orders_futures (bracket_orders.py:
\* 413-472) over the first n entries: whether it returned an error, tp_specs
\* and total_tp_qty. entry_price_rounded is None for a MARKET entry.
RECURSIVE BracketTakeProfits(_, _, _, _, _, _)

BracketTakeProfits(f, side, entry_price_rounded, q, take_profits, n) ==
    IF n = 0
    THEN [error |-> FALSE, tp_specs |-> <<>>, total |-> 0]
    ELSE LET acc == BracketTakeProfits(f, side, entry_price_rounded, q,
                                       take_profits, n - 1)
             tp == take_profits[n]
             p == ValidateAndRoundPrice(f, tp.price)
             tq == TakeProfitQuantity(f, tp, q)
             remaining == q.rounded - acc.total
         IN  IF acc.error
             THEN acc
             ELSE IF \/ tp.price = None
                     \/ ~p.valid
                     \/ /\ entry_price_rounded # None
                        /\ TakeProfitOnWrongSide(side, p.rounded,
                                                 entry_price_rounded)
             THEN [acc EXCEPT !.error = TRUE]
             ELSE IF tp.quantity # None \/ tp.percentage # None
             THEN IF tq.valid
                  THEN [acc EXCEPT
                           !.tp_specs = Append(@, [price |-> p.rounded,
                                                   quantity |-> tq.rounded]),
                           !.total = @ + tq.rounded]
                  ELSE acc
             ELSE IF remaining > 0
                  THEN [acc EXCEPT
                           !.tp_specs = Append(@, [price |-> p.rounded,
                                                   quantity |-> remaining]),
                           !.total = q.rounded]
                  ELSE acc

EntryTypes == {"LIMIT", "MARKET", "STOP"}

\* place_bracket_orders_futures up to the post_only test (bracket_orders.py:
\* 355-472) for a valid side and entry type: whether it goes on, and
\* entry_params, sl_price_rounded and tp_specs.
PlaceBracketEntry(f, side, entry_type, entry_price, quantity, sl_given, tps_given) ==
    LET q == ValidateAndRoundQuantity(f, quantity, FALSE)
        e == IF entry_type = "LIMIT"
             THEN ValidateAndRoundPrice(f, entry_price)
             ELSE [valid |-> FALSE, rounded |-> 0]
        entry_price_rounded == IF e.valid THEN e.rounded ELSE None
        s == IF sl_given # None
             THEN ValidateAndRoundPrice(f, sl_given)
             ELSE [valid |-> FALSE, rounded |-> 0]
        tps == BracketTakeProfits(f, side, entry_price_rounded, q,
                                  tps_given, Len(tps_given))
    IN  IF \/ ~q.valid
           \/ entry_type = "LIMIT" /\ ~e.valid
           \/ /\ sl_given # None
              /\ \/ ~s.valid
                 \/ /\ entry_price_rounded # None
                    /\ StopOnWrongSide(side, s.rounded, entry_price_rounded)
           \/ tps.error
        THEN ErrorResponse(side, entry_type)
        ELSE [accepted |-> TRUE,
              side |-> side,
              type |-> entry_type,
              price |-> entry_price_rounded,
              quantity |-> q.rounded,
              stop |-> IF s.valid THEN s.rounded ELSE None,
              tps |-> tps.tp_specs,
              warnings |-> {},
              suggested |-> None]

\* One call of place_bracket_orders_futures, up to the entry's submission
\* (bracket_orders.py:355-498); post_only with a MARKET entry is refused
\* just before it (476-480).
OvPlaceBracketOrders ==
    /\ ov.call = "none"
    /\ \E given_side \in PlanSides, entry_type \in EntryTypes :
          LET side == Upper(given_side)
          IN  IF side \notin {"BUY", "SELL"}
                 \/ entry_type \notin {"LIMIT", "MARKET"}
              THEN ov' = [ov EXCEPT
                             !.call = "place_bracket_orders",
                             !.result = ErrorResponse(side, entry_type)]
              ELSE \E entry_price \in 0..MaxPrice,
                      quantity \in 0..MaxOrderQty,
                      stop_loss_price \in OptionalPrices,
                      take_profits \in TakeProfitLists :
                      LET r == PlaceBracketEntry(
                                   ov.filters, side, entry_type, entry_price,
                                   quantity, stop_loss_price, take_profits)
                      IN  \E post_only \in BOOLEAN :
                              ov' = [ov EXCEPT
                                        !.call = "place_bracket_orders",
                                        !.result =
                                            IF post_only
                                               /\ entry_type # "LIMIT"
                                            THEN ErrorResponse(side,
                                                               entry_type)
                                            ELSE r]
    /\ UNCHANGED ovOthers

PlanNext == OvValidateOrderPlan \/ OvPlaceBracketOrders \/ OvReturn

PlanSpec == PlanInit /\ [][PlanNext]_vars

\* A valid plan, or a bracket whose entry was sent.
PlanAccepted ==
    /\ ov.call \in {"validate_order_plan", "place_bracket_orders"}
    /\ ov.result.accepted

\* a < b for two rounded prices that both exist.
Below(a, b) == a = None \/ b = None \/ a < b

\* C28: every bracket whose entry is submitted to the exchange, and every
\* plan reported valid by validate_order_plan, satisfies after rounding:
\* for a long (BUY) entry SL < entry < every TP, and for a short (SELL)
\* entry SL > entry > every TP.
C28_StopEntryTakeProfitsOrdered ==
    PlanAccepted =>
        LET r == ov.result
        IN  IF r.side = "BUY"
            THEN /\ Below(r.stop, r.price)
                 /\ \A i \in 1..Len(r.tps) :
                        /\ Below(r.price, r.tps[i].price)
                        /\ Below(r.stop, r.tps[i].price)
            ELSE /\ Below(r.price, r.stop)
                 /\ \A i \in 1..Len(r.tps) :
                        /\ Below(r.tps[i].price, r.price)
                        /\ Below(r.tps[i].price, r.stop)

\* The rounded quantities of the take profits, added up.
RECURSIVE TotalTakeProfitQuantity(_, _)

TotalTakeProfitQuantity(tps, n) ==
    IF n = 0
    THEN 0
    ELSE TotalTakeProfitQuantity(tps, n - 1)
         + IF tps[n].quantity = None THEN 0 ELSE tps[n].quantity

\* C29: every plan reported valid by validate_order_plan, and every bracket
\* accepted for entry submission, has a sum of rounded TP quantities that is
\* at most the rounded entry quantity.
C29_TakeProfitQuantitiesWithinEntry ==
    PlanAccepted =>
        TotalTakeProfitQuantity(ov.result.tps, Len(ov.result.tps))
            <= ov.result.quantity

\* The same for the plans alone, and for the brackets alone.
PlanQuantitiesWithinEntry ==
    ov.call = "validate_order_plan" => C29_TakeProfitQuantitiesWithinEntry

BracketQuantitiesWithinEntry ==
    ov.call = "place_bracket_orders" => C29_TakeProfitQuantitiesWithinEntry

\* The order of stop, entry and take profits for the plans alone, for the
\* brackets with a LIMIT entry, and for the brackets with a MARKET entry.
PlanPricesOrdered ==
    ov.call = "validate_order_plan" => C28_StopEntryTakeProfitsOrdered

LimitBracketPricesOrdered ==
    (ov.call = "place_bracket_orders" /\ ov.result.type = "LIMIT")
        => C28_StopEntryTakeProfitsOrdered

MarketBracketPricesOrdered ==
    (ov.call = "place_bracket_orders" /\ ov.result.type = "MARKET")
        => C28_StopEntryTakeProfitsOrdered

\* ------------------------------------------------ the rounding functions
\*
\* round_to_tick_size and round_to_step_size called on their own, with any
\* positive value and any tick or step.

RoundInit ==
    /\ BracketIdle
    /\ lv = LvIdle
    /\ ttl = TtlIdle
    /\ pe = PeIdle
    /\ rq = RqIdle
    /\ ws = WsNew
    /\ rb = RbNew
    /\ mc = McNew
    /\ rt = RtIdle
    /\ an = AnNew
    /\ lk = LkIdle
    /\ ov = OvIdle

\* One call of round_to_tick_size.
OvRoundToTick ==
    /\ ov.call = "none"
    /\ \E value \in 1..MaxRoundValue, tick_size \in 1..MaxRoundSize :
          ov' = [ov EXCEPT
                    !.call = "round_to_tick_size",
                    !.args = [value |-> value, size |-> tick_size],
                    !.result.price = RoundToTick(value, tick_size)]
    /\ UNCHANGED ovOthers

\* One call of round_to_step_size.
OvRoundToStep ==
    /\ ov.call = "none"
    /\ \E value \in 1..MaxRoundValue, step_size \in 1..MaxRoundSize :
          ov' = [ov EXCEPT
                    !.call = "round_to_step_size",
                    !.args = [value |-> value, size |-> step_size],
                    !.result.quantity = RoundToStep(value, step_size)]
    /\ UNCHANGED ovOthers

RoundNext == OvRoundToTick \/ OvRoundToStep \/ OvReturn

RoundSpec == RoundInit /\ [][RoundNext]_vars

\* What the rounding call returned.
Rounded ==
    IF ov.call = "round_to_tick_size"
    THEN ov.result.price
    ELSE ov.result.quantity

SmallestSufficientQuantity(f, price) ==
    ((f.min_notional + price * f.step_size - 1) \div (price * f.step_size))
        * f.step_size

\* C32: when validate_order_plan fails a plan with min_notional_fail, the
\* quantity it suggests is at least ceil(min_notional / price / step) * step,
\* so that the suggested quantity times the price is at least min_notional.
C32_SuggestedQuantityReachesMinNotional ==
    (ov.call = "validate_order_plan"
     /\ "min_notional_fail" \in ov.result.warnings)
        => /\ ov.result.suggested
                  >= SmallestSufficientQuantity(ov.filters, ov.result.price)
           /\ ov.result.suggested * ov.result.price
                  >= ov.filters.min_notional

\* ------------------------------------------------------------ set_leverage
\*
\* set_leverage.py: one symbol, the leverage the exchange holds for it, and
\* calls of the tool one after the other. Nobody else changes the leverage.

lvOthers == <<bvars, ttl, pe, rq, ws, rb, mc, rt, an, lk, ov>>

LvInit ==
    /\ BracketIdle
    /\ ttl = TtlIdle
    /\ pe = PeIdle
    /\ rq = RqIdle
    /\ ws = WsNew
    /\ rb = RbNew
    /\ mc = McNew
    /\ rt = RtIdle
    /\ an = AnNew
    /\ lk = LkIdle
    /\ ov = OvIdle
    /\ lv \in {[LvIdle EXCEPT !.leverage = l] : l \in 1..MaxLeverage}

\* The leverages a caller writes: none, the valid ones, one over the cap.
LeverageInputs == 0..MaxLeverage \cup {LeverageCap + 1}

\* What the exchange does with the position-risk read (an answer that lists
\* the symbol, an answer that does not, a failure) and with the leverage
\* POST (done, refused with -4046 "no need to change", another failure).
ReadOutcomes == {"ok", "empty", "fail"}

PostOutcomes == {"ok", "no_change", "fail"}

\* A comparison that never finds the leverage already set.
AlreadySet_Never(current_leverage, leverage) == FALSE

\* current_leverage == leverage (set_leverage.py:92-96); current_leverage is
\* None when the read failed or did not list the symbol.
AlreadySet(current_leverage, leverage) == current_leverage = leverage

\* set_leverage (set_leverage.py:22-146) on a valid symbol: the whole call.
LvSetLeverage ==
    /\ lv.calls < MaxLeverageCalls
    /\ \E leverage \in LeverageInputs :
          IF leverage < 1 \/ leverage > LeverageCap
          THEN lv' = [lv EXCEPT
                         !.calls = @ + 1,
                         !.prev = lv.last,
                         !.last = [NoLeverageCall EXCEPT
                                      !.leverage = leverage]]
          ELSE \E read \in ReadOutcomes, post \in PostOutcomes :
                  LET current_leverage ==
                          IF read = "ok" THEN lv.leverage ELSE None
                      already_set == AlreadySet(current_leverage, leverage)
                  IN  /\ post = "no_change" => leverage = lv.leverage
                      /\ lv' = [lv EXCEPT
                                   !.calls = @ + 1,
                                   !.leverage = IF post = "ok"
                                                THEN leverage
                                                ELSE @,
                                   !.prev = lv.last,
                                   !.last =
                                       [leverage |-> leverage,
                                        read |-> read,
                                        current_leverage |-> current_leverage,
                                        posted |-> TRUE,
                                        post |-> post,
                                        success |-> post # "fail",
                                        already_set |->
                                            CASE post = "ok" -> already_set
                                              [] post = "no_change" -> TRUE
                                              [] OTHER -> FALSE]]
    /\ UNCHANGED lvOthers

\* The caller starts over.
LvForget ==
    /\ lv.calls = MaxLeverageCalls
    /\ lv' = [lv EXCEPT !.calls = 0, !.last = NoLeverageCall,
                        !.prev = NoLeverageCall]
    /\ UNCHANGED lvOthers

LvNext == LvSetLeverage \/ LvForget

LeverageSpec == LvInit /\ [][LvNext]_vars

\* The last call repeats the value of the call before it, which succeeded,
\* and the exchange answered both of its requests.
LvRepeated ==
    /\ lv.prev.success
    /\ lv.prev.leverage = lv.last.leverage
    /\ lv.last.read = "ok"
    /\ lv.last.post \in {"ok", "no_change"}

C34_ShortCircuitWithoutPost ==
    (lv.last.read = "ok" /\ lv.last.current_leverage = lv.last.leverage)
        => lv.last.already_set /\ ~lv.last.posted

\* C35: whenever the stream is connected, every symbol in the subscription
\* set has been requested on the current connection, either in the connect
\* URL or by a SUBSCRIBE frame, including a symbol added while a connection
\* attempt was in progress.
C35_SubscribedSymbolsAreRequested ==
    (ws.connected /\ ws.open) => ws.subscribed \subseteq ws.requested

\* C36: when a bracket job's entry order ends fully FILLED and an SL was
\* requested and placed, the SL order covers the entry's full executed
\* quantity, including when the worker first observed the entry as
\* PARTIALLY_FILLED.
C36_StopLossCoversFilledEntry ==
    (ex.entry.status = "FILLED" /\ cfg.sl /\ ex.exit[SlId] # "NONE")
        => ex.qty[SlId] = ex.entry.executed

\* The same for the jobs whose worker placed the exits.
WorkerStopLossCoversFilledEntry ==
    hist.wWrote => C36_StopLossCoversFilledEntry

\* ------------------------------------------------ progress of bracket jobs

\* The steps of the thread that runs place_bracket_orders_futures.
CreatorStep ==
    \/ SubmitEntry \/ CreatorExitsDone \/ StoreJob \/ SpawnMonitor
    \/ (cpc = "place" /\ (PlaceSL \/ PlaceTP))

\* The steps of the _monitor_bracket thread: once started it runs to a
\* return, its sleeps end and its exchange requests come back.
MonitorStep ==
    \/ MonitorStart \/ Phase1Check \/ Phase1Fetch \/ Phase1Sleep \/ Phase1Record
    \/ MonitorExitsDone \/ Phase1Failed
    \/ Phase2Init \/ Phase2Check \/ Phase2Poll \/ Phase2Sleep \/ Phase2Cancel
    \/ Phase2Complete \/ Phase2Timeout \/ MonitorError
    \/ (w.pc = "place" /\ (PlaceSL \/ PlaceTP))

\* The steps of a cancel_bracket_job call that has set the flag.
CancellerStep == CancelEntry \/ CancelSL \/ CancelTP \/ CancelFinish

\* Every started thread keeps running, and the hour runs out: the cap is
\* wall-clock time (time.time() - start_time < max_wait), which passes in
\* every sleep of the worker, so it elapses in one of them. Nobody is made to
\* call cancel_bracket_job and the exchange is not made to fill anything.
FairSpec ==
    /\ Spec
    /\ WF_vars(CreatorStep)
    /\ WF_vars(MonitorStep)
    /\ WF_vars(CancellerStep)
    /\ SF_vars(CapElapses)

\* C37: every registered bracket job eventually leaves status `active`,
\* whichever path created it and whatever exits were placed (the cap elapses
\* in every fair behaviour with a worker, and a job without a worker has all
\* the time there is).
C37_RegisteredJobLeavesActive ==
    registered ~> (job.status \in BracketTerminal)

\* The job the claim fails for: stored with its exits due at once, none of
\* them placed, so that no monitor was started.
StoredWithoutMonitor ==
    /\ registered /\ cpc = "done" /\ w.pc = "none"
    /\ job.exit_orders_placed
    /\ job.sl_order_id = 0 /\ job.tp_order_ids = <<>>

\* For the jobs that do get a monitor the claim holds.
MonitoredJobLeavesActive ==
    (registered /\ w.pc # "none") ~> (job.status \in BracketTerminal)

\* ---------------------------------------------------- progress of TTL jobs

\* The steps of the thread that runs cancel_on_ttl.
TtlCreatorStep ==
    \/ TtlResolve \/ TtlVerify \/ TtlBlockingFetch \/ TtlBlockingCancel
    \/ TtlRegister \/ TtlSpawn

\* The steps of the _ttl_worker thread.
TtlWorkerStep ==
    \/ TtlWorkerStart \/ TtlWorkerWake \/ TtlWorkerFetch \/ TtlWorkerFetchFailed
    \/ TtlWorkerCancel \/ TtlWorkerCancelResult \/ TtlWorkerNoAction
    \/ TtlWorkerError

\* The caller's thread gets to thread.start(), the worker's sleep ends and its
\* exchange calls return (with an answer, a failure or an exception). Nobody
\* is made to call cancel_ttl_job and the order is not made to trade.
TtlFairSpec ==
    /\ TtlSpec
    /\ WF_vars(TtlCreatorStep)
    /\ WF_vars(TtlWorkerStep)

TtlTerminal == {"completed", "cancelled", "error"}

\* C38: every registered non-blocking TTL job gets to the end of its worker,
\* past the sleep of ttl_seconds, with status completed, cancelled or error.
C38_TtlJobReachesTerminal ==
    ttl.reg ~> (ttl.wpc = "done" /\ ttl.job.status \in TtlTerminal)

\* A job cancelled before its worker's first write, which the worker set back
\* to waiting and then, after the sleep, to cancelled.
C38_Witness ==
    /\ ttl.reg /\ ttl.wpc = "done" /\ ttl.kSucceeded
    /\ ttl.job.status = "cancelled"

\* Once the worker has returned the status stays terminal.
TtlWorkerDoneIsTerminal ==
    (ttl.wpc = "done") => (ttl.job.status \in TtlTerminal)

\* C39: the REST trade buffer holds each aggregated trade, identified by its
\* aggregate id, at most once.
C39_BufferHoldsEachTradeOnce ==
    \A i, j \in 1..Len(mc.buf) : mc.buf[i].a = mc.buf[j].a => i = j

\* How many entries of q carry the aggregate id a.
Occurrences(q, a) == Cardinality({i \in 1..Len(q) : q[i].a = a})

\* The trades the exchange held in [start_time_ms, end_time_ms] when the
\* running call of fetch_historical_trades was made.
HeldInRange ==
    {i \in 1..mc.hf.held :
        mc.hf.start_time_ms <= mc.tape[i] /\ mc.tape[i] <= mc.hf.end_time_ms}

\* A call over a range that is not empty (so that the loop asks for a page at
\* all) has returned with success.
HistoricalFetchSucceeded ==
    /\ mc.hf.pc = "returned" /\ mc.hf.success
    /\ mc.hf.start_time_ms < mc.hf.end_time_ms

\* C40: a fetch_historical_trades whose page requests all succeeded returns
\* every trade the exchange held in [start_ms, end_ms] exactly once, and no
\* trade twice.
C40_HistoricalFetchReturnsRangeOnce ==
    HistoricalFetchSucceeded =>
        /\ \A i \in HeldInRange : Occurrences(mc.hf.ret, i) = 1
        /\ \A i \in 1..Len(mc.tape) : Occurrences(mc.hf.ret, i) <= 1

\* The same for the calls that needed one page only.
OnePageFetchReturnsRangeOnce ==
    (HistoricalFetchSucceeded /\ mc.hf.current_start = mc.hf.start_time_ms) =>
        /\ \A i \in HeldInRange : Occurrences(mc.hf.ret, i) = 1
        /\ \A i \in 1..Len(mc.tape) : Occurrences(mc.hf.ret, i) <= 1

====
